---------------------------- MODULE Spec2Model ----------------------------
(***************************************************************************)
(* Model of the duck-therapy backend: the agents' safe-execution envelope  *)
(* (base_agent.py), the emotion-analysis agent (listener_agent.py), the    *)
(* persona-styling agent (duck_style_agent.py) and the workflow engine     *)
(* (crew_manager.py).                                                      *)
(*                                                                         *)
(* Conventions.  Floats in [0,1] (intensity, confidence) are integers in   *)
(* percent.  A text is a sequence of one-character strings.  A success     *)
(* rate is the pair [num, den] of the division that computes it.  An       *)
(* error message is a sequence of strings (its parts, in order); the empty *)
(* sequence is Python's None.                                              *)
(***************************************************************************)
EXTENDS Integers, Sequences, FiniteSets, TLC

VARIABLES
    cfg,           \* the YAML configuration in effect (config_loader)
    agents,        \* CrewManager.agents: the names of the registered agents
    req,           \* the arguments of the execute_workflow call
    pc,            \* position of execute_workflow
    emotion_tr,    \* emotion_task_result of the running flow
    par_tasks,     \* parallel_tasks: names of the dispatched concurrent steps
    par_done,      \* results of the concurrent steps that have settled
    task_results,  \* task_results of the running flow
    final_output,  \* final_output of the running flow
    wf_result,     \* the WorkflowResult returned by execute_workflow
    llm_calls,     \* number of LLM task executions (BaseAgent._execute_task)
    call,          \* a direct safe_process call: its input and its outcome
    dispatched,    \* the _execute_task calls of the running flow, in order
    settings,      \* Settings: the LLM provider configuration
    llm_instances, \* LLMService._llm_instances: the initialized providers
    health_status, \* LLMService._health_status
    health_results,\* the dict last returned by check_all_health
    llm_op,        \* the LLMService operation in progress
    adm,           \* CrewManager.health_check / reload_configurations
    chat           \* api/chat.py: chat_sessions and the requests in progress

wfVars == <<req, pc, emotion_tr, par_tasks, par_done, task_results,
            final_output, wf_result>>
svcVars == <<settings, llm_instances, health_status, health_results,
             llm_op, adm, chat>>
vars == <<cfg, agents, req, pc, emotion_tr, par_tasks, par_done,
          task_results, final_output, wf_result, llm_calls, call,
          dispatched, settings, llm_instances, health_status,
          health_results, llm_op, adm, chat>>

-----------------------------------------------------------------------------
(* Bounds of the model *)

MaxTextLen == 2

\* how many times reload_configurations is called in one behaviour
MaxReloads == 2

\* longest raw sentiment string built from RawChars
MaxRawLen == 3

\* how many timestamps the chat handlers store in one behaviour
MaxClock == 3

\* longest response text given to the style transform and to the cleanup
MaxStyleLen == 4

-----------------------------------------------------------------------------
(* Texts *)

Chars == {"s", "h", "k", "K", "m", "!"}

Texts == UNION {[1..n -> Chars] : n \in 0..MaxTextLen}

LowerChar(c) == IF c = "K" THEN "k" ELSE c

Lower(t) == [i \in 1..Len(t) |-> LowerChar(t[i])]

\* Python's `kw in text` for strings: kw occurs as a contiguous run
Contains(t, kw) ==
    \E i \in 0..(Len(t) - Len(kw)) :
        \A j \in 1..Len(kw) : t[i + j] = kw[j]

None == <<>>
NullData == [null |-> TRUE]


Max(a, b) == IF a >= b THEN a ELSE b
Min(a, b) == IF a <= b THEN a ELSE b

-----------------------------------------------------------------------------
(* The configuration (agents.yaml, tasks.yaml).  The YAML files are not    *)
(* part of the code; the fields below are the ones the code's control flow *)
(* reads, and each takes a well-formed and a defective value.              *)

Configs ==
    [ emotion_template : BOOLEAN,   \* task_templates has "emotion_analysis"
      duck_template    : BOOLEAN,   \* task_templates has "duck_response_generation"
      crisis_level     : {4, 6},    \* urgency_levels["crisis"]
      crisis_response  : BOOLEAN,   \* safety_responses has "crisis"
      endings          : BOOLEAN ]  \* duck_expressions has "endings"

GoodConfig ==
    [ emotion_template |-> TRUE, duck_template |-> TRUE, crisis_level |-> 4,
      crisis_response |-> TRUE, endings |-> TRUE ]

ConfiguredWorkflows ==
    {"basic_chat_flow", "enhanced_chat_flow", "daily_report_flow", "custom_flow"}

\* emotion_analysis section of the listener agent's configuration
EmotionOrder == <<"sad", "happy", "anxious", "lonely">>

EmotionKeywords(e) ==
    CASE e = "sad"    -> {<<"s">>}
      [] e = "happy"  -> {<<"h">>}
      [] e = "anxious" -> {<<"k">>}
      [] e = "lonely" -> {<<"s">>, <<"k">>}

PositiveIndicators == {<<"h">>}
NegativeIndicators == {<<"s">>, <<"k">>}
PunctuationBoost == [c \in {"!"} |-> 30]
CrisisKeywords == {<<"k">>}
HighUrgencyKeywords == {<<"s", "s">>}
DefaultEmotions == {"calm"}

\* defaults written in the code
DefaultIntensity == 50
MultipleEmotionsBoost == 20
MaxIntensity == 100
FallbackConfidence == 60
UrgencyNormal == 1
UrgencyMedium == 2
UrgencyHigh == 3
MediumIntensityThreshold == 70

-----------------------------------------------------------------------------
(* EmotionAnalysis (models/emotion.py): the field constraints              *)

IntensityLo == 0
IntensityHi == 100
UrgencyLo == 1
UrgencyHi == 5

ValidEmotionAnalysis(a) ==
    /\ a.sentiment \in {"positive", "neutral", "negative"}
    /\ a.intensity >= IntensityLo /\ a.intensity <= IntensityHi
    /\ a.confidence >= IntensityLo /\ a.confidence <= IntensityHi
    /\ a.urgency_level >= UrgencyLo /\ a.urgency_level <= UrgencyHi

\* the outcome of a computation that may raise
Ok(v) == [ok |-> TRUE, v |-> v]
Raise(msg) == [ok |-> FALSE, err |-> msg]

\* EmotionAnalysis(...): pydantic validates on construction
NewEmotionAnalysis(a) ==
    IF ValidEmotionAnalysis(a) THEN Ok(a) ELSE Raise(<<"ValidationError">>)

-----------------------------------------------------------------------------
(* ListenerAgent._rule_based_analysis                                      *)

Score(kws, t) == Cardinality({kw \in kws : Contains(t, kw)})

Keep(e, t) == Score(EmotionKeywords(e), t) > 0

DetectedEmotions(t) == SelectSeq(EmotionOrder, LAMBDA e : Keep(e, Lower(t)))

RuleSentiment(t) ==
    LET Decide(pos, neg) ==
            IF pos > neg THEN "positive"
            ELSE IF neg > pos THEN "negative"
            ELSE "neutral"
    IN  Decide(Score(PositiveIndicators, Lower(t)),
               Score(NegativeIndicators, Lower(t)))

RECURSIVE SumBoost(_, _)
SumBoost(cs, t) ==
    IF cs = {} THEN 0
    ELSE LET c == CHOOSE x \in cs : TRUE
         IN  (IF Contains(t, <<c>>) THEN PunctuationBoost[c] ELSE 0)
             + SumBoost(cs \ {c}, t)

RuleIntensity(t) ==
    LET Multi(base) == IF Len(DetectedEmotions(t)) > 2
                       THEN base + MultipleEmotionsBoost ELSE base
    IN  Min(Multi(DefaultIntensity + SumBoost(DOMAIN PunctuationBoost, t)),
            MaxIntensity)

RuleUrgency(t, c) ==
    IF \E kw \in CrisisKeywords : Contains(Lower(t), kw)
    THEN c.crisis_level
    ELSE IF \E kw \in HighUrgencyKeywords : Contains(Lower(t), kw)
    THEN UrgencyHigh
    ELSE IF RuleSentiment(t) = "negative"
            /\ RuleIntensity(t) > MediumIntensityThreshold
    THEN UrgencyMedium
    ELSE UrgencyNormal

Range(s) == {s[i] : i \in 1..Len(s)}

RuleKeywords(t) ==
    UNION {{kw \in EmotionKeywords(e) : Contains(Lower(t), kw)} :
           e \in Range(DetectedEmotions(t))}

RuleBasedAnalysis(t, c) ==
    LET Build(det) ==
          NewEmotionAnalysis(
            [ sentiment |-> RuleSentiment(t),
              intensity |-> RuleIntensity(t),
              confidence |-> FallbackConfidence,
              primary_emotions |->
                  IF det = <<>> THEN DefaultEmotions
                  ELSE Range(SubSeq(det, 1, Min(2, Len(det)))),
              secondary_emotions |->
                  IF Len(det) > 2 THEN Range(SubSeq(det, 3, Len(det)))
                  ELSE {},
              keywords |-> RuleKeywords(t),
              urgency_level |-> RuleUrgency(t, c),
              processing_notes |-> "rule" ])
    IN  Build(DetectedEmotions(t))

-----------------------------------------------------------------------------
(* ListenerAgent._normalize_sentiment.  A raw sentiment is a sequence of   *)
(* characters; a Chinese word is one token named by its pinyin.            *)

LowerLetter(c) ==
    CASE c = "P" -> "p" [] c = "O" -> "o" [] c = "S" -> "s"
      [] c = "N" -> "n" [] c = "E" -> "e" [] c = "G" -> "g"
      [] c = "K" -> "k"
      [] OTHER -> c

LowerStr(t) == [i \in 1..Len(t) |-> LowerLetter(t[i])]

RECURSIVE LStrip(_)
LStrip(t) == IF t # <<>> /\ Head(t) = " " THEN LStrip(Tail(t)) ELSE t

RECURSIVE RStrip(_)
RStrip(t) ==
    IF t # <<>> /\ t[Len(t)] = " " THEN RStrip(SubSeq(t, 1, Len(t) - 1)) ELSE t

Strip(t) == RStrip(LStrip(t))

PositiveForms ==
    { <<"+">>, <<"zhengmian">>, <<"jiji">>,
      <<"p", "o", "s", "i", "t", "i", "v", "e">>, <<"p", "o", "s">>,
      <<"g", "o", "o", "d">> }
NegativeForms ==
    { <<"-">>, <<"fumian">>, <<"xiaoji">>,
      <<"n", "e", "g", "a", "t", "i", "v", "e">>, <<"n", "e", "g">>,
      <<"b", "a", "d">> }
NeutralForms ==
    { <<"0">>, <<"zhongxing">>, <<"n", "e", "u", "t", "r", "a", "l">>,
      <<"n", "e", "u">>, <<"pingjing">> }

NormalizeNoStrip(raw) ==
    IF raw = <<>> THEN "neutral"
    ELSE LET str == LowerStr(raw)
         IN  IF str \in PositiveForms THEN "positive"
             ELSE IF str \in NegativeForms THEN "negative"
             ELSE "neutral"

NormalizeSentiment(raw) ==
    IF raw = <<>> THEN "neutral"
    ELSE LET str == Strip(LowerStr(raw))
         IN  IF str \in PositiveForms THEN "positive"
             ELSE IF str \in NegativeForms THEN "negative"
             ELSE IF str \in NeutralForms THEN "neutral"
             ELSE "neutral"

\* the canonical values as raw strings
AsChars(v) ==
    CASE v = "positive" -> <<"p", "o", "s", "i", "t", "i", "v", "e">>
      [] v = "negative" -> <<"n", "e", "g", "a", "t", "i", "v", "e">>
      [] v = "neutral"  -> <<"n", "e", "u", "t", "r", "a", "l">>

-----------------------------------------------------------------------------
(* What the LLM task execution of the listener agent may produce           *)
(* (BaseAgent._execute_task): it raises, or it returns a string, which is   *)
(* free text without braces ("text"), a brace span that is not JSON         *)
(* ("badjson"), or a JSON object ("json").  A field of the JSON object is   *)
(* absent, a number, or a value of another type ("bad").                    *)

Absent == [tag |-> "absent"]
Bad == [tag |-> "bad"]
Num(n) == [tag |-> "num", v |-> n]
Str(t) == [tag |-> "str", v |-> t]

ModelIntensities == {Absent, Bad, Num(40), Num(60), Num(75), Num(110)}
ModelUrgencies == {Absent, Bad, Num(0), Num(3), Num(5), Num(6)}
ModelSentiments == {Absent, Str(<<"+">>), Str(<<"N", "E", "G">>), Str(<<"x">>)}
ModelEmotions == {{}, {"sad"}}

ListenerResponses ==
    {[kind |-> "raise"], [kind |-> "badjson"]}
    \cup [kind : {"text"}, sentiment : {"positive", "negative", "neutral"},
          emotions : ModelEmotions]
    \cup [kind : {"json"}, sentiment : ModelSentiments,
          intensity : ModelIntensities, urgency_level : ModelUrgencies,
          rest_valid : BOOLEAN]

\* defaults of the merge and of the free-text extractor
MergeDefaultIntensity == 50
MergeDefaultConfidence == 80
MergeDefaultUrgency == 1
ExtractIntensity == 50
ExtractConfidence == 50
ExtractUrgency == 1

\* ListenerAgent._extract_from_text
ExtractFromText(r) ==
    [ kind |-> "json", sentiment |-> Str(AsChars(r.sentiment)),
      intensity |-> Num(ExtractIntensity),
      confidence |-> Num(ExtractConfidence),
      primary_emotions |-> r.emotions,
      urgency_level |-> Num(ExtractUrgency) ]

\* json.loads of the brace span
ParsedJson(r) ==
    [ kind |-> "json", sentiment |-> r.sentiment, intensity |-> r.intensity,
      confidence |-> IF r.rest_valid THEN Absent ELSE Num(150),
      primary_emotions |-> {},
      urgency_level |-> r.urgency_level ]

\* parsed_data.get(key, default)
Get(field, default) == IF field.tag = "absent" THEN Num(default) ELSE field

-----------------------------------------------------------------------------
(* ListenerAgent._parse_and_enhance_analysis                               *)

MergeIntensityModelOnly(m, r) == m

\* intensity=max(parsed_data.get("intensity", 0.5), rule_analysis.intensity)
MergeIntensity(m, r) == Max(m, r)

MergeUrgencyModelOnly(m, r) == m

\* urgency_level=max(parsed_data.get("urgency_level", 1), rule_analysis.urgency_level)
MergeUrgency(m, r) == Max(m, r)

SentimentRuleOnly(parsed, rule) == AsChars(rule.sentiment)

\* sentiment_raw = parsed_data.get("sentiment", rule_analysis.sentiment)
SentimentRaw(parsed, rule) ==
    IF parsed.sentiment.tag = "absent"
    THEN AsChars(rule.sentiment) ELSE parsed.sentiment.v

\* the merge of the parsed model response with the rule-based analysis;
\* max() of a number and a value of another type raises TypeError
CombineAnalysis(parsed, rule) ==
    LET Combine(mi, mu, mc, raw) ==
          IF mi.tag = "bad" \/ mu.tag = "bad"
          THEN Raise(<<"TypeError">>)
          ELSE NewEmotionAnalysis(
                 [ sentiment |-> NormalizeSentiment(raw),
                   intensity |-> MergeIntensity(mi.v, rule.intensity),
                   confidence |-> mc.v,
                   primary_emotions |->
                       parsed.primary_emotions \cup rule.primary_emotions,
                   secondary_emotions |-> {},
                   keywords |-> rule.keywords,
                   urgency_level |-> MergeUrgency(mu.v, rule.urgency_level),
                   processing_notes |-> "combined" ])
    IN  Combine(Get(parsed.intensity, MergeDefaultIntensity),
                Get(parsed.urgency_level, MergeDefaultUrgency),
                Get(parsed.confidence, MergeDefaultConfidence),
                SentimentRaw(parsed, rule))

\* r is the string the LLM task returned (r.kind # "raise")
ParseAndEnhance(r, t, c) ==
    IF r.kind = "badjson"
    THEN RuleBasedAnalysis(t, c)       \* json.JSONDecodeError is caught
    ELSE LET Enhance(parsed, rule) ==
                 IF ~rule.ok THEN rule ELSE CombineAnalysis(parsed, rule.v)
         IN  Enhance(IF r.kind = "json" THEN ParsedJson(r)
                     ELSE ExtractFromText(r),
                     RuleBasedAnalysis(t, c))

-----------------------------------------------------------------------------
(* BaseAgentOutput and the agents' process methods.  A process outcome is  *)
(* [out, calls]: the output and the number of LLM task executions made.    *)

Output(success, name, data, error) ==
    [ success |-> success, agent_name |-> name, data |-> data,
      error |-> error, processing_time_ms |-> None ]

ListenerNoFallback(t, c, e) ==
    Output(FALSE, "listener_agent", NullData, e)

\* the fallback of ListenerAgent.process after the LLM path raised e
ListenerFallback(t, c, e) ==
    LET Fallback(fb) ==
          IF fb.ok
          THEN Output(TRUE, "listener_agent", fb.v, None)
          ELSE Output(FALSE, "listener_agent", NullData,
                      <<"Both LLM and fallback analysis failed: ">>
                          \o e \o <<", ">> \o fb.err)
    IN  Fallback(RuleBasedAnalysis(t, c))

\* ListenerAgent.process on text t, with the configuration c and the LLM
\* answering r
ListenerProcess(t, c, r) ==
    LET Try(a) ==      \* a: the LLM path's analysis, or what it raised
          [ out |-> IF a.ok THEN Output(TRUE, "listener_agent", a.v, None)
                    ELSE ListenerFallback(t, c, a.err),
            calls |-> IF c.emotion_template THEN 1 ELSE 0 ]
    IN  Try(IF ~c.emotion_template
            THEN Raise(<<"Emotion analysis task template not found">>)
            ELSE IF r.kind = "raise" THEN Raise(<<"llm_error">>)
            ELSE ParseAndEnhance(r, t, c))

-----------------------------------------------------------------------------
(* DuckStyleAgent.  The safety patterns are regex fragments; the model's   *)
(* patterns are literals, searched in the lower-cased text.  A response    *)
(* text is named by the template or path that produced it.                 *)

InappropriatePatterns == <<<<"k">>>>
MedicalPatterns == <<<<"m">>>>
CrisisResponse == "safety_responses.crisis"
MedicalResponse == "safety_responses.medical"

EmptyAnalysis == [empty |-> TRUE]      \* the dict {}

\* emotion_analysis.get("sentiment", "neutral")
SentimentOf(ea) == IF ea = EmptyAnalysis THEN "neutral" ELSE ea.sentiment

\* emotion_analysis.get("primary_emotions", [])
EmotionsOf(ea) == IF ea = EmptyAnalysis THEN {} ELSE ea.primary_emotions

\* re.search(pattern, text)
Search(pattern, t) == Contains(t, pattern)

AnyMatch(patterns, t) == \E i \in 1..Len(patterns) : Search(patterns[i], t)

MedicalFirstSafety(t, c) ==
    IF AnyMatch(MedicalPatterns, Lower(t))
    THEN Ok([has_issues |-> TRUE, reason |-> "medical_content",
             response |-> MedicalResponse])
    ELSE IF AnyMatch(InappropriatePatterns, Lower(t))
    THEN IF c.crisis_response
         THEN Ok([has_issues |-> TRUE, reason |-> "crisis_content",
                  response |-> CrisisResponse])
         ELSE Raise(<<"KeyError: 'crisis'">>)
    ELSE Ok([has_issues |-> FALSE])

\* DuckStyleAgent._check_content_safety
CheckContentSafety(t, c) ==
    IF AnyMatch(InappropriatePatterns, Lower(t))
    THEN IF c.crisis_response
         THEN Ok([has_issues |-> TRUE, reason |-> "crisis_content",
                  response |-> CrisisResponse])
         ELSE Raise(<<"KeyError: 'crisis'">>)
    ELSE IF AnyMatch(MedicalPatterns, Lower(t))
    THEN Ok([has_issues |-> TRUE, reason |-> "medical_content",
             response |-> MedicalResponse])
    ELSE Ok([has_issues |-> FALSE])

\* DuckStyleAgent._generate_fallback_response: the template selected
FallbackTemplate(ea) ==
    LET Select(sentiment, emotions) ==
          IF sentiment = "positive"
          THEN IF "happy" \in emotions THEN "fallback.positive.happy"
               ELSE IF "grateful" \in emotions
               THEN "fallback.positive.grateful"
               ELSE "fallback.positive"
          ELSE IF sentiment = "negative"
          THEN IF "sad" \in emotions THEN "fallback.negative.sad"
               ELSE IF "anxious" \in emotions
               THEN "fallback.negative.anxious"
               ELSE IF "angry" \in emotions THEN "fallback.negative.angry"
               ELSE "fallback.negative"
          ELSE "fallback.neutral"
    IN  Select(SentimentOf(ea), EmotionsOf(ea))

\* self.duck_expressions["endings"][0] raises KeyError without the key
GenerateFallbackResponse(inp, c) ==
    IF c.endings THEN Ok(FallbackTemplate(inp.emotion_analysis))
    ELSE Raise(<<"KeyError: 'endings'">>)

\* DuckStyleAgent._enhance_duck_response: _ensure_warm_ending reads
\* self.duck_expressions["endings"]
EnhanceDuckResponse(inp, c) ==
    IF c.endings THEN Ok("styled") ELSE Raise(<<"KeyError: 'endings'">>)

DuckResponses == {[kind |-> "raise"], [kind |-> "llm_text"]}

\* the fallback of DuckStyleAgent.process after the LLM path raised e
DuckFallback(inp, c, e) ==
    LET Fallback(fb) ==
          IF fb.ok
          THEN Output(TRUE, "duck_style_agent",
                      [text |-> fb.v, fallback_used |-> TRUE], None)
          ELSE Output(FALSE, "duck_style_agent", NullData,
                      <<"Both LLM and fallback generation failed: ">>
                          \o e \o <<", ">> \o fb.err)
    IN  Fallback(GenerateFallbackResponse(inp, c))

\* DuckStyleAgent.process
DuckProcess(inp, c, r) ==
    LET \* styled: the LLM path's text, or what it raised
        Try(styled, calls) ==
          [ out |-> IF styled.ok
                    THEN Output(TRUE, "duck_style_agent",
                                [text |-> styled.v, style_applied |-> TRUE],
                                None)
                    ELSE DuckFallback(inp, c, styled.err),
            calls |-> calls ]
        Gate(safety) ==
          IF ~safety.ok THEN Try(safety, 0)
          ELSE IF safety.v.has_issues
          THEN [out |-> Output(TRUE, "duck_style_agent",
                          [text |-> safety.v.response,
                           safety_triggered |-> TRUE,
                           safety_reason |-> safety.v.reason], None),
                calls |-> 0]
          ELSE IF ~c.duck_template
          THEN Try(Raise(
                 <<"Duck response generation task template not found">>), 0)
          ELSE IF r.kind = "raise" THEN Try(Raise(<<"llm_error">>), 1)
          ELSE Try(EnhanceDuckResponse(inp, c), 1)
    IN  Gate(CheckContentSafety(inp.user_message, c))

-----------------------------------------------------------------------------
(* BaseAgent.safe_process.  An input is a BaseAgentInput (typed, with its  *)
(* session_id) or an object without a session_id attribute, such as the    *)
(* dict that _execute_enhanced_chat_flow passes for its concurrent steps.  *)
(* "other_agent" stands for a subclass whose process is not in the code    *)
(* (the TODO agents): its process returns a result or raises.              *)

AgentNames == {"listener_agent", "duck_style_agent"}
SessionIds == {"", "s1"}
DictInput == [typed |-> FALSE]
NoResponse == [kind |-> "none"]
OtherResponses == {[kind |-> "raise"], [kind |-> "result"]}

ValidateInputTypedOnly(inp) ==
    IF ~inp.typed THEN Raise(<<"AttributeError: session_id">>) ELSE Ok(TRUE)

\* BaseAgent._validate_input: reads input_data.session_id
ValidateInput(inp) ==
    IF ~inp.typed THEN Raise(<<"AttributeError: session_id">>)
    ELSE Ok(inp.session_id # "")

\* BaseAgent._log_processing: reads input_data.session_id
LogProcessing(inp) ==
    IF ~inp.typed THEN Raise(<<"AttributeError: session_id">>) ELSE Ok(TRUE)

\* self.process(input_data) of the agent named a
Process(a, inp, c, r) ==
    CASE a = "listener_agent" -> Ok(ListenerProcess(inp.text, c, r))
      [] a = "duck_style_agent" -> Ok(DuckProcess(inp, c, r))
      [] OTHER ->
           IF r.kind = "raise" THEN Raise(<<"process_error">>)
           ELSE Ok([out |-> Output(TRUE, a, [other |-> TRUE], None),
                    calls |-> 0])

TimeNotSet(out) == out

\* processing_time_ms=int((time.time() - start_time) * 1000)
SetTime(out) == [out EXCEPT !.processing_time_ms = <<"elapsed_ms">>]

\* the outcome of safe_process: it returns out, or the exception err
\* escapes it; invoked tells whether self.process was called
Returned(out, calls) ==
    [ escaped |-> FALSE, out |-> SetTime(out), err |-> None, calls |-> calls,
      invoked |-> FALSE ]
Escaped(err, calls) ==
    [ escaped |-> TRUE, out |-> NullData, err |-> err, calls |-> calls,
      invoked |-> FALSE ]
AfterProcess(res) == [res EXCEPT !.invoked = TRUE]

\* the except branch of safe_process
SafeProcessHandler(a, inp, e, calls) ==
    LET Handle(log) ==
          IF log.ok THEN Returned(Output(FALSE, a, NullData, e), calls)
          ELSE Escaped(log.err, calls)
    IN  Handle(LogProcessing(inp))

SafeProcess(a, inp, c, r) ==
    LET Finish(p, log) ==
          IF ~p.ok THEN SafeProcessHandler(a, inp, p.err, 0)
          ELSE IF log.ok
          THEN Returned([p.v.out EXCEPT !.agent_name = a], p.v.calls)
          ELSE SafeProcessHandler(a, inp, log.err, p.v.calls)
        Checked(valid) ==
          IF ~valid.ok THEN SafeProcessHandler(a, inp, valid.err, 0)
          ELSE IF ~valid.v
          THEN Returned(Output(FALSE, a, NullData, <<"Invalid input data">>),
                        0)
          ELSE AfterProcess(Finish(Process(a, inp, c, r), LogProcessing(inp)))
    IN  Checked(ValidateInput(inp))

\* TRUE when safe_process, on this input and configuration, reaches the LLM
\* task execution of the agent
AsksLLM(a, inp, c) ==
    /\ LET Valid(v) == v.ok /\ v.v IN Valid(ValidateInput(inp))
    /\ CASE a = "listener_agent" -> c.emotion_template
         [] a = "duck_style_agent" ->
              LET Passed(safety) == safety.ok /\ ~safety.v.has_issues
              IN  /\ Passed(CheckContentSafety(inp.user_message, c))
                  /\ c.duck_template
         [] OTHER -> TRUE

\* what the environment can answer to the agent's call
Responses(a, inp, c) ==
    IF ~AsksLLM(a, inp, c) THEN {NoResponse}
    ELSE CASE a = "listener_agent" -> ListenerResponses
           [] a = "duck_style_agent" -> DuckResponses
           [] OTHER -> OtherResponses

-----------------------------------------------------------------------------
(* CrewManager: task and workflow results                                  *)

TaskResult(task_name, success, data, error, agent_used) ==
    [ task_name |-> task_name, success |-> success, data |-> data,
      error |-> error, agent_used |-> agent_used ]

\* the TaskResult that _execute_task builds after agent.safe_process
\* returned, or raised
FromSafeProcess(task_name, agent_name, sp) ==
    IF sp.escaped
    THEN [tr |-> TaskResult(task_name, FALSE, NullData, sp.err, agent_name),
          calls |-> sp.calls]
    ELSE [tr |-> TaskResult(task_name, sp.out.success, sp.out.data,
                            sp.out.error, agent_name),
          calls |-> sp.calls]

\* CrewManager._execute_task: every exception becomes a failed TaskResult
ExecuteTask(task_name, agent_name, inp, registry, c, r) ==
    IF agent_name \notin registry
    THEN [tr |-> TaskResult(task_name, FALSE, NullData,
                            <<"Agent '", agent_name, "' not found">>,
                            agent_name),
          calls |-> 0]
    ELSE FromSafeProcess(task_name, agent_name,
                         SafeProcess(agent_name, inp, c, r))

\* what the environment can answer to the task's agent
TaskResponses(agent_name, inp, registry, c) ==
    IF agent_name \notin registry THEN {NoResponse}
    ELSE Responses(agent_name, inp, c)

Rate(k, n) == [num |-> k, den |-> n]
RateIsOne(q) == q.num = q.den
\* success_rate > 0.5
RateAboveHalf(q) == 2 * q.num > q.den

SuccessCount(trs) == Cardinality({i \in 1..Len(trs) : trs[i].success})

\* success_count / len(task_results) if task_results else 0
SuccessRate(trs) ==
    IF trs = <<>> THEN Rate(0, 1) ELSE Rate(SuccessCount(trs), Len(trs))

StatusAtLeastHalf(q) ==
    IF RateIsOne(q) THEN "completed"
    ELSE IF 2 * q.num >= q.den THEN "partially_completed"
    ELSE "failed"

\* "Determine final status" of execute_workflow
StatusOf(q) ==
    IF RateIsOne(q) THEN "completed"
    ELSE IF RateAboveHalf(q) THEN "partially_completed"
    ELSE "failed"

WorkflowResult(name, status, trs, rate, output, error) ==
    [ workflow_name |-> name, status |-> status, task_results |-> trs,
      success_rate |-> rate, final_output |-> output, error |-> error ]

\* the tail of execute_workflow's try block: the metrics and the status are
\* written into the result the flow returned
WithMetrics(flow_result) ==
    LET Update(q) ==
          [flow_result EXCEPT !.success_rate = q, !.status = StatusOf(q)]
    IN  Update(SuccessRate(flow_result.task_results))

FailedResultNoError(name, e) ==
    WorkflowResult(name, "failed", <<>>, Rate(0, 1), NullData, None)

\* the WorkflowResult built by the except branch of execute_workflow
FailedResult(name, e) ==
    WorkflowResult(name, "failed", <<>>, Rate(0, 1), NullData, e)

\* an exception that leaves execute_workflow
Thrown(e) == [thrown |-> e]

Rethrown(name, e) == Thrown(e)

\* except Exception as e: ... return WorkflowResult(...)
Caught(name, e) == FailedResult(name, e)

IsResult(w) == "status" \in DOMAIN w
IsThrown(w) == "thrown" \in DOMAIN w

NoResult == [none |-> TRUE]
NoTask == [none |-> TRUE]

-----------------------------------------------------------------------------
(* execute_workflow as a process.  pc is "start" before the call, then the *)
(* step the flow is suspended before ("emotion", "parallel", "duck"), and  *)
(* "done" once execute_workflow has returned wf_result.                    *)

\* the messages of the workflow requests
Messages ==
    { <<>>, <<"h">>, <<"s", "!">>, <<"k">>, <<"K">>, <<"m">>, <<"s", "k">> }

Workflows == ConfiguredWorkflows \cup {"unknown_flow"}

\* message_ok is FALSE when input_data["user_message"] is not a string
Requests ==
    { q \in [ workflow : Workflows, message_ok : BOOLEAN, message : Messages,
              session_id : SessionIds ] :
        ~q.message_ok => q.message = <<>> }

TherapyThreshold == 60

ListenerInput(q) ==
    [typed |-> TRUE, session_id |-> q.session_id, text |-> q.message]

DuckStyleInput(q, etr) ==
    [ typed |-> TRUE, session_id |-> q.session_id,
      user_message |-> q.message,
      emotion_analysis |-> IF etr.success THEN etr.data ELSE EmptyAnalysis ]

\* emotion_data.get("intensity", 0) of the enhanced flow
EmotionIntensity(etr) == IF etr.success THEN etr.data.intensity ELSE 0

TherapyAtThreshold(etr) == EmotionIntensity(etr) >= TherapyThreshold

\* if emotion_intensity > 0.6
TherapyDue(etr) == EmotionIntensity(etr) > TherapyThreshold

\* parallel_tasks of _execute_enhanced_chat_flow, in the order of dispatch
ParallelTasks(etr) ==
    (IF etr.success THEN <<"content_recommendation">> ELSE <<>>)
    \o (IF TherapyDue(etr) THEN <<"therapy_suggestion">> ELSE <<>>)

ParallelAgent(task) ==
    IF task = "content_recommendation" THEN "content_recall_agent"
    ELSE "therapy_tips_agent"

\* final_output of the chat flows
FinalOutputNeedsEmotion(q, etr, dtr) ==
    IF dtr.success /\ etr.success
    THEN [ response_text |-> dtr.data.text,
           emotion_analysis |-> etr.data,
           workflow_type |-> IF q.workflow = "basic_chat_flow"
                             THEN "basic_chat" ELSE "enhanced_chat" ]
    ELSE NullData

FinalOutputEmptyAnalysis(q, etr, dtr) ==
    IF dtr.success
    THEN [ response_text |-> dtr.data.text,
           emotion_analysis |-> IF etr.success THEN etr.data
                                ELSE EmptyAnalysis,
           workflow_type |-> IF q.workflow = "basic_chat_flow"
                             THEN "basic_chat" ELSE "enhanced_chat" ]
    ELSE NullData

FinalOutput(q, etr, dtr) ==
    IF dtr.success
    THEN [ response_text |-> dtr.data.text,
           emotion_analysis |-> IF etr.success THEN etr.data ELSE NullData,
           workflow_type |-> IF q.workflow = "basic_chat_flow"
                             THEN "basic_chat" ELSE "enhanced_chat" ]
    ELSE NullData

\* the input dict of a concurrent step
ParallelInput == DictInput

AbortOnFailedStep(etr, par) ==
    IF ~etr.success THEN "done" ELSE IF par = <<>> THEN "duck" ELSE "parallel"

\* where the flow continues after the emotion step: with the concurrent
\* group if parallel_tasks is not empty, else with the styling step
AfterEmotion(etr, par) == IF par = <<>> THEN "duck" ELSE "parallel"

LastToSettle(tasks, done) == Len(tasks) - Len(done)

\* the concurrent step that settles next.  gather wraps the coroutines in
\* tasks in the order of its arguments and the event loop runs them first
\* in, first out; _execute_task reaches no suspension point (the step's
\* agent is not registered), so each task runs to its end in turn
NextToSettle(tasks, done) == Len(done) + 1

AnySettled(tasks, done) == tasks = <<>> \/ Len(done) >= 1

\* await asyncio.gather(...) resumes when every task has settled
AllSettled(tasks, done) == Len(done) = Len(tasks)

\* the list returned by gather: one result per argument, in the order of
\* the arguments (parallel_tasks), whatever the order of settling
RECURSIVE GatherResults(_, _)
GatherResults(tasks, done) ==
    IF tasks = <<>> THEN <<>>
    ELSE LET Pick(here) ==
               IF here = {} THEN <<>> ELSE <<CHOOSE tr \in here : TRUE>>
         IN  Pick({tr \in Range(done) : tr.task_name = Head(tasks)})
             \o GatherResults(Tail(tasks), done)

\* one call self._execute_task(task_name=..., input_data=...)
Dispatch(task_name, inp) == [task_name |-> task_name, inp |-> inp]

IdleWorkflow ==
    /\ pc = "idle"
    /\ dispatched = <<>>
    /\ emotion_tr = NoTask
    /\ par_tasks = <<>>
    /\ par_done = <<>>
    /\ task_results = <<>>
    /\ final_output = NullData
    /\ wf_result = NoResult

NoCall == [stage |-> "none"]

\* the settings, the LLM service and the manager's maintenance operations
\* as they are after start-up with the default settings
Providers == {"openai", "anthropic", "ollama"}
NoProvider == "None"
DefaultSettings ==
    [ primary_llm_provider |-> "ollama", fallback_llm_provider |-> "ollama",
      enable_llm_fallback |-> TRUE ]
NoOp == [op |-> "idle"]

-----------------------------------------------------------------------------
(* api/chat.py: the in-memory session store and its endpoints.  A session  *)
(* id and a message text are sequences of characters; a time is the value  *)
(* of the clock chat.now, which advances when a handler stores a timestamp.*)

SidA == <<"a">>
SidB == <<"b">>
SessionKeys == {SidA, SidB}

\* the value of chat_sessions[session_id] that send_message and
\* generate_stream create
NewSession(t) ==
    [created_at |-> t, messages |-> <<>>, last_activity |-> t,
     emotion_history |-> <<>>]

\* chat_sessions with chat_sessions[sid] = session
Put(ss, sid, session) ==
    [k \in DOMAIN ss \cup {sid} |-> IF k = sid THEN session ELSE ss[k]]

\* the answer of a handler: the HTTP status and the store it leaves
Answer(status, ss, body) == [status |-> status, sessions |-> ss, body |-> body]

\* raise HTTPException(status_code=404, detail="Session not found")
NotFound(ss) == Answer(404, ss, "Session not found")

\* get_session_info
GetSessionInfo(ss, sid) ==
    IF sid \notin DOMAIN ss THEN NotFound(ss)
    ELSE Answer(200, ss,
                [ session_id |-> sid, created_at |-> ss[sid].created_at,
                  message_count |-> Len(ss[sid].messages),
                  last_activity |-> ss[sid].last_activity ])

\* get_session_messages (with the default limit and offset)
GetSessionMessages(ss, sid) ==
    IF sid \notin DOMAIN ss THEN NotFound(ss)
    ELSE Answer(200, ss,
                [ session_id |-> sid, messages |-> ss[sid].messages,
                  total_count |-> Len(ss[sid].messages) ])

\* get_emotion_history
GetEmotionHistory(ss, sid) ==
    IF sid \notin DOMAIN ss THEN NotFound(ss)
    ELSE Answer(200, ss,
                [ session_id |-> sid,
                  emotion_history |-> ss[sid].emotion_history,
                  total_entries |-> Len(ss[sid].emotion_history) ])

ClearResetsSession(ss, sid, t) ==
    IF sid \notin DOMAIN ss THEN NotFound(ss)
    ELSE Answer(200, Put(ss, sid, NewSession(t)),
                "Session cleared successfully")

\* clear_session at time t
ClearSession(ss, sid, t) ==
    IF sid \notin DOMAIN ss THEN NotFound(ss)
    ELSE Answer(200,
                Put(ss, sid, [ss[sid] EXCEPT !.messages = <<>>,
                                             !.emotion_history = <<>>,
                                             !.last_activity = t]),
                "Session cleared successfully")

DeleteOnlyClears(ss, sid) ==
    IF sid \notin DOMAIN ss THEN NotFound(ss)
    ELSE Answer(200, Put(ss, sid, [ss[sid] EXCEPT !.messages = <<>>,
                                                  !.emotion_history = <<>>]),
                "Session deleted successfully")

\* delete_session
DeleteSession(ss, sid) ==
    IF sid \notin DOMAIN ss THEN NotFound(ss)
    ELSE Answer(200, [k \in DOMAIN ss \ {sid} |-> ss[k]],
                "Session deleted successfully")

\* a stored message: its type, its timestamp, and whether it has the key
\* execution_time_ms, which only the assistant message of a stream has
Message(type, t, timed) ==
    [type |-> type, timestamp |-> t, execution_time_ms |-> timed]

StoredReplyLater(session, start, now, timed, has_emotion) ==
    [ session EXCEPT
        !.messages = Append(@, Message("user", start, FALSE)),
        !.emotion_history = IF has_emotion THEN Append(@, start) ELSE @ ]

StoredFirst(session, start, now, timed, has_emotion) ==
    [ session EXCEPT
        !.messages = <<Message("user", start, FALSE),
                       Message("assistant", now, timed)>> \o @,
        !.emotion_history = IF has_emotion THEN Append(@, start) ELSE @ ]

\* the user message (stamped start) and the assistant message (stamped now)
\* are appended by one extend, and the emotion analysis when there is one
Stored(session, start, now, timed, has_emotion) ==
    [ session EXCEPT
        !.messages = @ \o <<Message("user", start, FALSE),
                            Message("assistant", now, timed)>>,
        !.emotion_history = IF has_emotion THEN Append(@, start) ELSE @ ]

\* the last answered request of the session endpoints: the store before and
\* after its handler
Reply(op, sid, prev, answer) ==
    [ op |-> op, session_id |-> sid, status |-> answer.status,
      body |-> answer.body, prev |-> prev, post |-> answer.sessions ]
NoReply == [op |-> "none"]

IdleChat ==
    [ sessions |-> [k \in {} |-> NewSession(0)], now |-> 0,
      reply |-> NoReply, send |-> {}, stream |-> NoOp ]

\* the manager after CrewManager(): no health check and no reload in
\* progress; gen gives, for each registered agent, which run of
\* _initialize_agents created the agent object
IdleAdm ==
    [ health |-> NoOp, reload |-> NoOp,
      gen |-> [a \in {"listener_agent", "duck_style_agent"} |-> 0],
      reloads |-> 0 ]

IdleServices ==
    /\ settings = DefaultSettings
    /\ llm_instances = {"ollama"}
    /\ health_status = [p \in {"ollama"} |-> TRUE]
    /\ health_results = {}
    /\ llm_op = NoOp
    /\ adm = IdleAdm
    /\ chat = IdleChat

Init ==
    /\ cfg \in Configs
    /\ agents = AgentNames
    /\ req \in Requests
    /\ pc = "start"
    /\ emotion_tr = NoTask
    /\ par_tasks = <<>>
    /\ par_done = <<>>
    /\ task_results = <<>>
    /\ final_output = NullData
    /\ wf_result = NoResult
    /\ llm_calls = 0
    /\ call = NoCall
    /\ dispatched = <<>>
    /\ IdleServices

\* get_workflow returns nothing: the ValueError is caught by execute_workflow
WorkflowNotFound ==
    /\ pc = "start"
    /\ req.workflow \notin ConfiguredWorkflows
    /\ wf_result' = Caught(req.workflow,
                        <<"Workflow '", req.workflow, "' not found">>)
    /\ pc' = "done"
    /\ UNCHANGED <<cfg, agents, req, emotion_tr, par_tasks, par_done,
                   task_results, final_output, llm_calls, call>>
    /\ UNCHANGED <<dispatched, svcVars>>

\* basic_chat_flow and enhanced_chat_flow begin with the emotion step
StartChatFlow ==
    /\ pc = "start"
    /\ req.workflow \in {"basic_chat_flow", "enhanced_chat_flow"}
    /\ pc' = "emotion"
    /\ UNCHANGED <<cfg, agents, req, emotion_tr, par_tasks, par_done,
                   task_results, final_output, wf_result, llm_calls, call>>
    /\ UNCHANGED <<dispatched, svcVars>>

\* _execute_daily_report_flow, then the metrics
DailyReportFlow ==
    /\ pc = "start"
    /\ req.workflow = "daily_report_flow"
    /\ wf_result' = WithMetrics(
            WorkflowResult("daily_report_flow", "failed", <<>>, Rate(0, 1),
                           NullData, <<"Report agent not yet implemented">>))
    /\ pc' = "done"
    /\ UNCHANGED <<cfg, agents, req, emotion_tr, par_tasks, par_done,
                   task_results, final_output, llm_calls, call>>
    /\ UNCHANGED <<dispatched, svcVars>>

\* _execute_generic_workflow, then the metrics
GenericWorkflow ==
    /\ pc = "start"
    /\ req.workflow \in ConfiguredWorkflows
    /\ req.workflow \notin
           {"basic_chat_flow", "enhanced_chat_flow", "daily_report_flow"}
    /\ wf_result' = WithMetrics(
            WorkflowResult(req.workflow, "failed", <<>>, Rate(0, 1), NullData,
                           <<"Generic workflow executor not yet implemented">>))
    /\ pc' = "done"
    /\ UNCHANGED <<cfg, agents, req, emotion_tr, par_tasks, par_done,
                   task_results, final_output, llm_calls, call>>
    /\ UNCHANGED <<dispatched, svcVars>>

\* ListenerInput(...) rejects a user_message that is not a string: the
\* ValidationError escapes the flow and is caught by execute_workflow
EmotionInputRejected ==
    /\ pc = "emotion"
    /\ ~req.message_ok
    /\ wf_result' = Caught(req.workflow, <<"ValidationError">>)
    /\ pc' = "done"
    /\ UNCHANGED <<cfg, agents, req, emotion_tr, par_tasks, par_done,
                   task_results, final_output, llm_calls, call>>
    /\ UNCHANGED <<dispatched, svcVars>>

\* Step 1 of both chat flows; the enhanced flow then builds parallel_tasks
EmotionStep ==
    /\ pc = "emotion"
    /\ req.message_ok
    /\ \E r \in TaskResponses("listener_agent", ListenerInput(req), agents, cfg) :
         \E x \in {ExecuteTask("emotion_analysis", "listener_agent",
                                ListenerInput(req), agents, cfg, r)} :
           \E par \in {IF req.workflow = "enhanced_chat_flow"
                        THEN ParallelTasks(x.tr) ELSE <<>>} :
             /\ emotion_tr' = x.tr
             /\ task_results' = <<x.tr>>
             /\ llm_calls' = llm_calls + x.calls
             /\ par_tasks' = par
             /\ dispatched' =
                  <<Dispatch("emotion_analysis", ListenerInput(req))>>
                  \o [i \in 1..Len(par) |-> Dispatch(par[i], ParallelInput)]
             /\ pc' = AfterEmotion(x.tr, par)
    /\ UNCHANGED <<cfg, agents, req, par_done, final_output, wf_result, call>>
    /\ UNCHANGED svcVars

\* one concurrent step runs to its end; par_done lists the results in the
\* order of settling
SettleParallel ==
    /\ pc = "parallel"
    /\ Len(par_done) < Len(par_tasks)
    /\ \E task \in {par_tasks[NextToSettle(par_tasks, par_done)]} :
         \E r \in TaskResponses(ParallelAgent(task), ParallelInput, agents, cfg) :
           \E x \in {ExecuteTask(task, ParallelAgent(task), ParallelInput,
                                  agents, cfg, r)} :
             /\ par_done' = Append(par_done, x.tr)
             /\ llm_calls' = llm_calls + x.calls
    /\ UNCHANGED <<cfg, agents, req, pc, emotion_tr, par_tasks, task_results,
                   final_output, wf_result, call>>
    /\ UNCHANGED <<dispatched, svcVars>>

\* gather returns once every step has settled; its results are appended in
\* the order of parallel_tasks
GatherParallel ==
    /\ pc = "parallel"
    /\ AllSettled(par_tasks, par_done)
    /\ task_results' = task_results \o GatherResults(par_tasks, par_done)
    /\ pc' = "duck"
    /\ UNCHANGED <<cfg, agents, req, emotion_tr, par_tasks, par_done,
                   final_output, wf_result, llm_calls, call>>
    /\ UNCHANGED <<dispatched, svcVars>>

\* the styling step, the flow's result, and the metrics of execute_workflow
DuckStep ==
    /\ pc = "duck"
    /\ \E inp \in {DuckStyleInput(req, emotion_tr)} :
         \E r \in TaskResponses("duck_style_agent", inp, agents, cfg) :
           \E x \in {ExecuteTask("duck_response_generation",
                                  "duck_style_agent", inp, agents, cfg, r)} :
             \E out \in {FinalOutput(req, emotion_tr, x.tr)} :
               /\ task_results' = Append(task_results, x.tr)
               /\ dispatched' =
                    Append(dispatched,
                           Dispatch("duck_response_generation", inp))
               /\ final_output' = out
               /\ llm_calls' = llm_calls + x.calls
               /\ wf_result' = WithMetrics(
                      WorkflowResult(req.workflow, "running",
                                     Append(task_results, x.tr),
                                     Rate(0, 1), out, None))
    /\ pc' = "done"
    /\ UNCHANGED <<cfg, agents, req, emotion_tr, par_tasks, par_done, call>>
    /\ UNCHANGED svcVars

Next ==
    \/ WorkflowNotFound
    \/ StartChatFlow
    \/ DailyReportFlow
    \/ GenericWorkflow
    \/ EmotionInputRejected
    \/ EmotionStep
    \/ SettleParallel
    \/ GatherParallel
    \/ DuckStep

Spec == Init /\ [][Next]_vars

-----------------------------------------------------------------------------
(* Direct calls of safe_process: one call per behaviour, on any input      *)

OtherAgent == "other_agent"

DuckAnalyses ==
    {EmptyAnalysis}
    \cup {RuleBasedAnalysis(t, GoodConfig).v : t \in {<<"s">>, <<"h">>}}

Inputs(a) ==
    {DictInput} \cup
    CASE a = "listener_agent" ->
           [typed : {TRUE}, session_id : SessionIds, text : Texts]
      [] a = "duck_style_agent" ->
           [ typed : {TRUE}, session_id : SessionIds, user_message : Texts,
             emotion_analysis : DuckAnalyses ]
      [] OTHER -> [typed : {TRUE}, session_id : SessionIds]

\* the configurations that differ in the fields the agent reads
ConfigsOf(a) ==
    CASE a = "listener_agent" ->
           {c \in Configs : c.duck_template /\ c.crisis_response /\ c.endings}
      [] a = "duck_style_agent" ->
           {c \in Configs : c.emotion_template /\ c.crisis_level = 4}
      [] OTHER -> {GoodConfig}

InitAgent ==
    /\ agents = AgentNames
    /\ \E a \in AgentNames \cup {OtherAgent} :
         /\ cfg \in ConfigsOf(a)
         /\ call \in [stage : {"new"}, agent : {a}, inp : Inputs(a)]
    /\ req \in {q \in Requests : q.workflow = "unknown_flow" /\ q.message_ok
                                  /\ q.message = <<>> /\ q.session_id = ""}
    /\ IdleWorkflow
    /\ llm_calls = 0
    /\ IdleServices

\* await agent.safe_process(input_data)
CallSafeProcess(a) ==
    /\ call.stage = "new"
    /\ call.agent = a
    /\ \E r \in Responses(a, call.inp, cfg) :
         \E sp \in {SafeProcess(a, call.inp, cfg, r)} :
           /\ call' = [ stage |-> "done", agent |-> a, inp |-> call.inp,
                        r |-> r, res |-> sp ]
           /\ llm_calls' = llm_calls + sp.calls
    /\ UNCHANGED <<cfg, agents, req, pc, emotion_tr, par_tasks, par_done,
                   task_results, final_output, wf_result>>
    /\ UNCHANGED <<dispatched, svcVars>>

CallListener == CallSafeProcess("listener_agent")
CallDuck == CallSafeProcess("duck_style_agent")
CallOther == CallSafeProcess(OtherAgent)

NextAgent == CallListener \/ CallDuck \/ CallOther

SpecAgent == InitAgent /\ [][NextAgent]_vars

-----------------------------------------------------------------------------
(* Properties of the workflow engine (checked under Spec)                  *)

Done == pc = "done"
ResultReturned == Done /\ IsResult(wf_result)

Tasks(w) == w.task_results
TaskNames(trs) == {trs[i].task_name : i \in 1..Len(trs)}
SomeFailed(trs) == \E i \in 1..Len(trs) : ~trs[i].success

\* C1: every returned WorkflowResult has success_rate = 0 when it has no
\* task results and k/n otherwise (k of its n task results succeeded); its
\* status is COMPLETED iff the rate is 1, FAILED iff the rate is <= 0.5 and
\* PARTIALLY_COMPLETED otherwise; it is never PENDING or RUNNING.
C1_RateAndStatus ==
    ResultReturned =>
      LET n == Len(Tasks(wf_result))
          k == SuccessCount(Tasks(wf_result))
          q == wf_result.success_rate
      IN  /\ q.den > 0
          /\ (n = 0 => q.num = 0)
          /\ (n > 0 => q.num * n = k * q.den)
          /\ (wf_result.status = "completed" <=> q.num = q.den)
          /\ (wf_result.status = "failed" <=> 2 * q.num <= q.den)
          /\ (wf_result.status = "partially_completed"
                <=> (q.num # q.den /\ 2 * q.num > q.den))
          /\ wf_result.status \notin {"pending", "running"}

\* a run of enhanced_chat_flow that ends with two of three steps succeeded
C1_Witness ==
    /\ ResultReturned
    /\ Len(Tasks(wf_result)) = 3
    /\ SuccessCount(Tasks(wf_result)) = 2
    /\ wf_result.status = "partially_completed"

EmotionFailedDuckSucceeded ==
    /\ ResultReturned
    /\ req.workflow = "basic_chat_flow"
    /\ Len(Tasks(wf_result)) = 2
    /\ ~Tasks(wf_result)[1].success
    /\ Tasks(wf_result)[2].success

\* C2 as stated: a run with a failed step that still has a final output
\* has success_rate < 1 and status PARTIALLY_COMPLETED; in basic_chat_flow
\* with the emotion step failed and the styling step succeeded the rate is
\* 0.5, the status PARTIALLY_COMPLETED and final_output non-null.
C2_Original ==
    /\ (ResultReturned /\ SomeFailed(Tasks(wf_result))
          /\ wf_result.final_output # NullData)
       => /\ wf_result.success_rate.num < wf_result.success_rate.den
          /\ wf_result.status = "partially_completed"
    /\ EmotionFailedDuckSucceeded
       => /\ 2 * wf_result.success_rate.num = wf_result.success_rate.den
          /\ wf_result.status = "partially_completed"
          /\ wf_result.final_output # NullData

\* C2 amended: a run with a failed step that still has a final output has
\* success_rate < 1 and status PARTIALLY_COMPLETED when more than half of
\* its steps succeeded and FAILED otherwise; in basic_chat_flow with the
\* emotion step failed and the styling step succeeded the rate is 0.5, the
\* status FAILED and final_output non-null.
C2_Amended ==
    /\ (ResultReturned /\ SomeFailed(Tasks(wf_result))
          /\ wf_result.final_output # NullData)
       => /\ wf_result.success_rate.num < wf_result.success_rate.den
          /\ wf_result.status =
               IF 2 * SuccessCount(Tasks(wf_result)) > Len(Tasks(wf_result))
               THEN "partially_completed" ELSE "failed"
    /\ EmotionFailedDuckSucceeded
       => /\ 2 * wf_result.success_rate.num = wf_result.success_rate.den
          /\ wf_result.status = "failed"
          /\ wf_result.final_output # NullData
          /\ wf_result.final_output.emotion_analysis = NullData

C2_Witness ==
    /\ EmotionFailedDuckSucceeded
    /\ wf_result.final_output # NullData
    /\ wf_result.status = "failed"

\* C7: execute_workflow never raises: when the workflow name is not
\* configured, or an exception escapes the step dispatch, it returns a
\* WorkflowResult with status FAILED, success_rate 0, no task results and
\* the error's message.
C7_NeverRaises ==
    Done =>
      /\ IsResult(wf_result)
      /\ req.workflow \notin ConfiguredWorkflows
         => wf_result = WorkflowResult(req.workflow, "failed", <<>>,
                Rate(0, 1), NullData,
                <<"Workflow '", req.workflow, "' not found">>)
      /\ (req.workflow \in {"basic_chat_flow", "enhanced_chat_flow"}
            /\ ~req.message_ok)
         => wf_result = WorkflowResult(req.workflow, "failed", <<>>,
                Rate(0, 1), NullData, <<"ValidationError">>)

\* an exception escaped the step dispatch and was returned as a result
C7_Witness ==
    /\ ResultReturned
    /\ req.workflow = "enhanced_chat_flow"
    /\ ~req.message_ok
    /\ wf_result.error = <<"ValidationError">>

\* C8 as stated: executing an unknown workflow name ends with a thrown
\* error, not with a returned result value.
C8_Original ==
    (Done /\ req.workflow \notin ConfiguredWorkflows) => IsThrown(wf_result)

\* C8 amended: executing an unknown workflow name does not throw:
\* execute_workflow returns a result value with status FAILED whose error
\* names the workflow, no step is dispatched and no LLM is called.
C8_Amended ==
    (Done /\ req.workflow \notin ConfiguredWorkflows)
    => /\ IsResult(wf_result)
       /\ ~IsThrown(wf_result)
       /\ wf_result.status = "failed"
       /\ wf_result.error = <<"Workflow '", req.workflow, "' not found">>
       /\ task_results = <<>>
       /\ emotion_tr = NoTask
       /\ llm_calls = 0

C8_Witness ==
    /\ ResultReturned
    /\ req.workflow = "unknown_flow"
    /\ wf_result.status = "failed"

\* C9: whenever execute_workflow returns status FAILED, also when steps
\* were dispatched and every step failed, the result's error is non-null.
C9_FailedHasError ==
    (ResultReturned /\ wf_result.status = "failed") => wf_result.error # None

EmotionSettled ==
    /\ req.workflow = "enhanced_chat_flow"
    /\ pc \in {"parallel", "duck", "done"}
    /\ emotion_tr # NoTask

\* the concurrent steps dispatched so far (all of them once pc = "duck")
Dispatched ==
    IF pc = "parallel" THEN Range(par_tasks)
    ELSE IF IsResult(wf_result) THEN TaskNames(Tasks(wf_result))
    ELSE TaskNames(task_results)

\* C10: in enhanced_chat_flow the therapy-suggestion step is dispatched
\* iff the emotion step succeeded with intensity > 0.6 (at 0.75, not at 0.5
\* nor at exactly 0.6); the content-recommendation step is dispatched iff
\* the emotion step succeeded.
C10_ConditionalDispatch ==
    EmotionSettled =>
      /\ "therapy_suggestion" \in Dispatched
         <=> (emotion_tr.success /\ emotion_tr.data.intensity > 60)
      /\ "content_recommendation" \in Dispatched <=> emotion_tr.success
      /\ (emotion_tr.success /\ emotion_tr.data.intensity = 75)
         => "therapy_suggestion" \in Dispatched
      /\ (emotion_tr.success /\ emotion_tr.data.intensity \in {50, 60})
         => /\ "therapy_suggestion" \notin Dispatched
            /\ "content_recommendation" \in Dispatched

\* the emotion step succeeded with intensity exactly 0.6
C10_Witness ==
    /\ EmotionSettled
    /\ Done
    /\ emotion_tr.success
    /\ emotion_tr.data.intensity = 60
    /\ "content_recommendation" \in Dispatched
    /\ "therapy_suggestion" \notin Dispatched

-----------------------------------------------------------------------------
(* Properties of the agents (checked under SpecAgent)                      *)

Called(a) == call.stage = "done" /\ call.agent = a
ProcessInvoked == call.inp.typed /\ call.inp.session_id # ""

\* C3: safe_process never lets an exception escape: whatever is raised
\* inside process or inside the input validation, it returns an output
\* with success = false whose error is the exception's message.
C3_NeverEscapes ==
    call.stage = "done" =>
      /\ ~call.res.escaped
      /\ ~ValidateInput(call.inp).ok
         => /\ ~call.res.out.success
            /\ call.res.out.error = ValidateInput(call.inp).err
      /\ (Called(OtherAgent) /\ ProcessInvoked /\ call.r.kind = "raise")
         => /\ ~call.res.out.success
            /\ call.res.out.error = <<"process_error">>

CrisisMatch(t) ==
    AnyMatch(InappropriatePatterns, t)
    \/ AnyMatch(InappropriatePatterns, Lower(t))

ListenerSucceeded ==
    /\ Called("listener_agent")
    /\ ProcessInvoked
    /\ ~call.res.escaped
    /\ call.res.out.success

HasCrisisKeyword(t) == \E kw \in CrisisKeywords : Contains(Lower(t), kw)

\* C5: whenever the emotion-analysis agent returns success, whatever the
\* model answered, the urgency_level of its output is at least the one the
\* rule-based analysis computes for the same text; a text with a crisis
\* keyword yields at least the crisis level.
C5_UrgencyFloor ==
    ListenerSucceeded =>
      /\ call.res.out.data.urgency_level >= RuleUrgency(call.inp.text, cfg)
      /\ HasCrisisKeyword(call.inp.text)
         => call.res.out.data.urgency_level >= cfg.crisis_level

\* the model answered a lower urgency than the rules give for a crisis text
C5_Witness ==
    /\ ListenerSucceeded
    /\ HasCrisisKeyword(call.inp.text)
    /\ call.r.kind = "json"
    /\ call.r.urgency_level = Num(3)
    /\ call.res.out.data.processing_notes = "combined"
    /\ call.res.out.data.urgency_level = 4

\* the values the model provided, when it provided numbers
ModelProvided(r) ==
    IF r.kind = "json" THEN ParsedJson(r)
    ELSE IF r.kind = "text" THEN ExtractFromText(r)
    ELSE [intensity |-> Absent, urgency_level |-> Absent]

AtLeastModel(value, field) == field.tag = "num" => value >= field.v

\* C6 as stated: the urgency_level and the intensity of the returned
\* analysis are each >= both the model-provided and the rule-based value.
C6_Original ==
    ListenerSucceeded =>
      /\ call.res.out.data.intensity >= RuleIntensity(call.inp.text)
      /\ call.res.out.data.urgency_level >= RuleUrgency(call.inp.text, cfg)
      /\ AtLeastModel(call.res.out.data.intensity,
                      ModelProvided(call.r).intensity)
      /\ AtLeastModel(call.res.out.data.urgency_level,
                      ModelProvided(call.r).urgency_level)

\* C6 amended: the urgency_level and the intensity of the returned analysis
\* are each >= the rule-based value, and >= the model-provided value
\* whenever the merged analysis is returned; when the merge raises (a value
\* of the model's response is out of range or not a number) the returned
\* analysis is the rule-based one.
C6_Amended ==
    ListenerSucceeded =>
      /\ call.res.out.data.intensity >= RuleIntensity(call.inp.text)
      /\ call.res.out.data.urgency_level >= RuleUrgency(call.inp.text, cfg)
      /\ call.res.out.data.processing_notes = "combined"
         => /\ AtLeastModel(call.res.out.data.intensity,
                            ModelProvided(call.r).intensity)
            /\ AtLeastModel(call.res.out.data.urgency_level,
                            ModelProvided(call.r).urgency_level)
      /\ call.res.out.data.processing_notes # "combined"
         => call.res.out.data = RuleBasedAnalysis(call.inp.text, cfg).v

\* the model's intensity is below the rules' and its urgency above
C6_Witness ==
    /\ ListenerSucceeded
    /\ call.r.kind = "json"
    /\ call.r.intensity = Num(40)
    /\ call.r.urgency_level = Num(5)
    /\ call.res.out.data.processing_notes = "combined"
    /\ call.res.out.data.intensity = RuleIntensity(call.inp.text)
    /\ call.res.out.data.intensity > 40
    /\ call.res.out.data.urgency_level = 5
    /\ RuleUrgency(call.inp.text, cfg) < 5

-----------------------------------------------------------------------------
(* Ordering of the steps of a workflow execution (checked under Spec)      *)

ChatFlow == req.workflow \in {"basic_chat_flow", "enhanced_chat_flow"}

DispatchesOf(task_name) ==
    {i \in 1..Len(dispatched) : dispatched[i].task_name = task_name}

DuckDispatched == DispatchesOf("duck_response_generation") # {}

\* the results of the concurrent steps as they stand in task_results
ConcurrentResults == SubSeq(task_results, 2, 1 + Len(par_tasks))

\* C11: within one execution the steps run in declared order: the styling
\* step starts only after the emotion step has returned, it receives that
\* step's data ({} if the step failed), and in enhanced_chat_flow it starts
\* only after every dispatched concurrent step has settled.
C11_DeclaredOrder ==
    (ChatFlow /\ (pc = "duck" \/ DuckDispatched)) =>
      /\ emotion_tr # NoTask
      /\ Len(task_results) >= 1 /\ task_results[1] = emotion_tr
      /\ Len(par_done) = Len(par_tasks)
      /\ \A i \in 1..Len(par_tasks) :
           /\ Len(task_results) >= 1 + i
           /\ task_results[1 + i].task_name = par_tasks[i]
           /\ task_results[1 + i] \in Range(par_done)
      /\ \A i \in DispatchesOf("duck_response_generation") :
           /\ i = Len(dispatched)
           /\ i = 2 + Len(par_tasks)
           /\ dispatched[1].task_name = "emotion_analysis"
           /\ dispatched[i].inp.emotion_analysis =
                IF emotion_tr.success THEN emotion_tr.data ELSE EmptyAnalysis
           /\ dispatched[i].inp.user_message = req.message

\* the styling step ran after two concurrent steps and a successful
\* emotion step
C11_Witness ==
    /\ req.workflow = "enhanced_chat_flow"
    /\ pc = "done"
    /\ DuckDispatched
    /\ Len(par_done) = 2
    /\ emotion_tr.success
    /\ dispatched[4].inp.emotion_analysis = emotion_tr.data

C13_NoAbortNoRetry ==
    /\ (ChatFlow /\ req.message_ok /\ pc = "done")
       => Cardinality(DispatchesOf("duck_response_generation")) = 1
    /\ \A i, j \in 1..Len(dispatched) :
         dispatched[i].task_name = dispatched[j].task_name => i = j
    /\ (pc = "done" /\ IsResult(wf_result) /\ dispatched # <<>>)
       => [i \in 1..Len(dispatched) |-> dispatched[i].task_name]
            = [i \in 1..Len(Tasks(wf_result)) |->
                 Tasks(wf_result)[i].task_name]

\* every step before the styling step failed, and it was still dispatched
C13_Witness ==
    /\ req.workflow = "enhanced_chat_flow"
    /\ pc = "done"
    /\ IsResult(wf_result)
    /\ Len(Tasks(wf_result)) = 2
    /\ ~Tasks(wf_result)[1].success
    /\ Cardinality(DispatchesOf("duck_response_generation")) = 1

BasicFlowReturned ==
    /\ ResultReturned
    /\ req.workflow = "basic_chat_flow"
    /\ Len(Tasks(wf_result)) = 2

\* C14: in basic_chat_flow the final_output is non-null iff the styling
\* step succeeded; when non-null its response text is the text of the
\* styling step's payload and its emotion_analysis is the emotion step's
\* data if that step succeeded and null otherwise.
C14_BasicFinalOutput ==
    BasicFlowReturned =>
      /\ wf_result.final_output # NullData <=> Tasks(wf_result)[2].success
      /\ wf_result.final_output # NullData =>
           /\ wf_result.final_output.response_text
                = Tasks(wf_result)[2].data.text
           /\ wf_result.final_output.emotion_analysis
                = IF Tasks(wf_result)[1].success
                  THEN Tasks(wf_result)[1].data ELSE NullData

\* the styling step succeeded after a failed emotion step
C14_Witness ==
    /\ BasicFlowReturned
    /\ ~Tasks(wf_result)[1].success
    /\ Tasks(wf_result)[2].success
    /\ wf_result.final_output # NullData
    /\ wf_result.final_output.emotion_analysis = NullData

-----------------------------------------------------------------------------
(* LLMService (llm_service.py)                                             *)

\* a provider name that is none of the LLMProvider values
UnknownProvider == "mistral"

\* the provider argument of get_llm and generate_response
ProviderArgs == Providers \cup {NoProvider, UnknownProvider}

SettingsSet ==
    [ primary_llm_provider : Providers,
      fallback_llm_provider : Providers \cup {NoProvider},
      enable_llm_fallback : BOOLEAN ]

InstalledOnly(p, inst, hs) == p \in inst

\* provider in self._llm_instances and self._health_status.get(provider, False)
Usable(p, inst, hs) == p \in inst /\ p \in DOMAIN hs /\ hs[p]

\* LLMService._get_fallback_order
FallbackOrder(p) ==
    CASE p = "openai" -> <<"anthropic", "ollama">>
      [] p = "anthropic" -> <<"openai", "ollama">>
      [] p = "ollama" -> <<"openai", "anthropic">>
      [] OTHER -> <<"openai", "anthropic", "ollama">>

\* the loop over fallback_order of get_llm
RECURSIVE FirstUsable(_, _, _)
FirstUsable(order, inst, hs) ==
    IF order = <<>> THEN NoProvider
    ELSE IF Usable(Head(order), inst, hs) THEN Head(order)
    ELSE FirstUsable(Tail(order), inst, hs)

\* provider = settings.primary_llm_provider if provider is None
Requested(provider, st) ==
    IF provider = NoProvider THEN st.primary_llm_provider ELSE provider

\* LLMService.get_llm: the provider whose instance is returned, or
\* NoProvider for None
GetLlm(provider, st, inst, hs) ==
    IF Usable(Requested(provider, st), inst, hs)
    THEN Requested(provider, st)
    ELSE IF st.enable_llm_fallback
    THEN FirstUsable(FallbackOrder(Requested(provider, st)), inst, hs)
    ELSE NoProvider

BackendFailureEscapes(provider, st) ==
    IF /\ st.enable_llm_fallback
       /\ provider = st.primary_llm_provider
       /\ st.fallback_llm_provider # NoProvider
       /\ st.fallback_llm_provider # provider
    THEN [kind |-> "retry", provider |-> st.fallback_llm_provider]
    ELSE [kind |-> "raise"]

\* the except branch of generate_response: retry with the configured
\* fallback provider, or return None.  provider is the argument of the
\* call, not the provider that get_llm resolved
BackendFailure(provider, st) ==
    IF /\ st.enable_llm_fallback
       /\ provider = st.primary_llm_provider
       /\ st.fallback_llm_provider # NoProvider
       /\ st.fallback_llm_provider # provider
    THEN [kind |-> "retry", provider |-> st.fallback_llm_provider]
    ELSE [kind |-> "return_none"]

\* one backend call llm.call(...): the argument of generate_response, the
\* provider whose instance was called, and whether the call raised
BackendCall(provider, llm, raised) ==
    [provider |-> provider, llm |-> llm, raised |-> raised]

\* generate_response entered with argument provider (by the caller with
\* calls = <<>>, or by the retry): get_llm, then None or the backend call
EnterGenerate(arg, provider, calls, st, inst, hs) ==
    LET Enter(llm) ==
          IF llm = NoProvider
          THEN [ op |-> "generate", pc |-> "done", arg |-> arg,
                 provider |-> provider, llm |-> llm, calls |-> calls,
                 res |-> "None", raised |-> FALSE ]
          ELSE [ op |-> "generate", pc |-> "call", arg |-> arg,
                 provider |-> provider, llm |-> llm, calls |-> calls,
                 res |-> "None", raised |-> FALSE ]
    IN  Enter(GetLlm(provider, st, inst, hs))

\* LLMService._initialize_llms: the Ollama instance is created and marked
\* healthy, or its creation fails and it is marked unhealthy
InitLLM ==
    /\ settings \in SettingsSet
    /\ \/ llm_instances = {"ollama"} /\ health_status = [p \in {"ollama"} |-> TRUE]
       \/ llm_instances = {} /\ health_status = [p \in {"ollama"} |-> FALSE]
    /\ health_results = {}
    /\ llm_op = NoOp
    /\ adm = IdleAdm
    /\ chat = IdleChat
    /\ cfg = GoodConfig
    /\ agents = AgentNames
    /\ req \in {q \in Requests : q.workflow = "unknown_flow" /\ q.message_ok
                                  /\ q.message = <<>> /\ q.session_id = ""}
    /\ IdleWorkflow
    /\ llm_calls = 0
    /\ call = NoCall

llmUnchanged ==
    UNCHANGED <<cfg, agents, req, pc, emotion_tr, par_tasks, par_done,
                task_results, final_output, wf_result, llm_calls, call,
                dispatched, settings, llm_instances, adm, chat>>

\* a call of get_llm
GetLlmCall ==
    /\ llm_op = NoOp
    /\ \E p \in ProviderArgs :
         llm_op' = [ op |-> "get_llm", provider |-> p,
                     res |-> GetLlm(p, settings, llm_instances,
                                    health_status) ]
    /\ UNCHANGED <<health_status, health_results>>
    /\ llmUnchanged

\* a call of generate_response
GenerateResponse ==
    /\ llm_op = NoOp
    /\ \E p \in ProviderArgs :
         llm_op' = EnterGenerate(p, p, <<>>, settings, llm_instances,
                                 health_status)
    /\ UNCHANGED <<health_status, health_results>>
    /\ llmUnchanged

\* llm.call returns the response
BackendReturns ==
    /\ llm_op.op = "generate" /\ llm_op.pc = "call"
    /\ llm_op' = [ llm_op EXCEPT
                     !.calls = Append(@, BackendCall(llm_op.provider,
                                                     llm_op.llm, FALSE)),
                     !.pc = "done", !.res = "text" ]
    /\ UNCHANGED <<health_status, health_results>>
    /\ llmUnchanged

MarkFailedUnhealthy(hs, llm) == [hs EXCEPT ![llm] = FALSE]

\* self._health_status after llm.call raised: the except branch of
\* generate_response logs the error and does not write the map
AfterGenerationFailed(hs, llm) == hs

\* llm.call raises: the except branch
BackendRaises ==
    /\ llm_op.op = "generate" /\ llm_op.pc = "call"
    /\ \E f \in {BackendFailure(llm_op.provider, settings)} :
         \E calls \in {Append(llm_op.calls,
                              BackendCall(llm_op.provider, llm_op.llm, TRUE))} :
           llm_op' =
             IF f.kind = "retry"
             THEN EnterGenerate(llm_op.arg, f.provider, calls, settings,
                                llm_instances, health_status)
             ELSE [ llm_op EXCEPT !.calls = calls, !.pc = "done",
                                  !.res = "None",
                                  !.raised = (f.kind = "raise") ]
    /\ health_status' = AfterGenerationFailed(health_status, llm_op.llm)
    /\ UNCHANGED health_results
    /\ llmUnchanged

\* the caller has its answer
LlmReturn ==
    /\ \/ llm_op.op = "get_llm"
       \/ llm_op.op = "generate" /\ llm_op.pc = "done"
    /\ llm_op' = NoOp
    /\ UNCHANGED <<health_status, health_results>>
    /\ llmUnchanged

\* what a health probe can do
ProbeOutcomes == {"status_200", "status_other", "raises", "timeout"}

ProbeResultOptimistic(outcome) ==
    IF outcome \in {"status_200", "timeout"} THEN "healthy" ELSE "unhealthy"

\* the status check_all_health reports for a probe: _test_ollama_health
\* stores status_code == 200, or False when the request raises; an
\* exception and a timeout of the probe are reported unhealthy
ProbeResult(outcome) ==
    IF outcome = "status_200" THEN "healthy" ELSE "unhealthy"

\* self._health_status[provider] = result["status"] == "healthy"
MarkedHealthy(status) == status = "healthy"

\* the order of self._llm_instances.items()
RECURSIVE InstanceOrder(_)
InstanceOrder(inst) ==
    IF inst = {} THEN <<>>
    ELSE LET First(p) == <<p>> \o InstanceOrder(inst \ {p})
         IN  First(CHOOSE p \in inst : TRUE)

\* check_all_health builds one probe per initialized provider
CheckAllHealth ==
    /\ llm_op = NoOp
    /\ llm_op' = [ op |-> "check", pc |-> "probe",
                   pending |-> InstanceOrder(llm_instances),
                   results |-> {}, raised |-> FALSE ]
    /\ UNCHANGED <<health_status, health_results>>
    /\ llmUnchanged

\* await asyncio.wait_for(task, timeout=10.0) of the next provider
ProbeSettles ==
    /\ llm_op.op = "check" /\ llm_op.pc = "probe"
    /\ llm_op.pending # <<>>
    /\ \E outcome \in ProbeOutcomes :
         \E status \in {ProbeResult(outcome)} :
           /\ llm_op' = [ llm_op EXCEPT
                            !.pending = Tail(@),
                            !.results = @ \cup
                               {[ provider |-> Head(llm_op.pending),
                                  outcome |-> outcome, status |-> status ]} ]
           /\ health_status' =
                [health_status EXCEPT ![Head(llm_op.pending)] =
                                         MarkedHealthy(status)]
    /\ UNCHANGED health_results
    /\ llmUnchanged

\* return health_results
CheckReturns ==
    /\ llm_op.op = "check" /\ llm_op.pc = "probe"
    /\ llm_op.pending = <<>>
    /\ health_results' = llm_op.results
    /\ llm_op' = [llm_op EXCEPT !.pc = "done"]
    /\ UNCHANGED health_status
    /\ llmUnchanged

CheckDone ==
    /\ llm_op.op = "check" /\ llm_op.pc = "done"
    /\ llm_op' = NoOp
    /\ UNCHANGED <<health_status, health_results>>
    /\ llmUnchanged

NextLLM ==
    \/ GetLlmCall
    \/ GenerateResponse
    \/ BackendReturns
    \/ BackendRaises
    \/ LlmReturn
    \/ CheckAllHealth
    \/ ProbeSettles
    \/ CheckReturns
    \/ CheckDone

SpecLLM == InitLLM /\ [][NextLLM]_vars

-----------------------------------------------------------------------------
(* Properties of the LLM service (checked under SpecLLM)                   *)

GotLlm == llm_op.op = "get_llm"

IsUsable(p) == p \in llm_instances /\ health_status[p]

\* the providers of a fallback order before position i
Before(order, i) == {order[j] : j \in 1..(i - 1)}

\* C15: get_llm returns the requested provider if it is initialized and
\* marked healthy; otherwise, if fallback is enabled, the first provider of
\* the requested provider's fallback order that is initialized and marked
\* healthy; otherwise null.  A returned provider is marked healthy.
C15_ProviderResolution ==
    GotLlm =>
      LET want == Requested(llm_op.provider, settings)
          order == FallbackOrder(want)
          res == llm_op.res
      IN  /\ res # NoProvider => IsUsable(res)
          /\ IsUsable(want) => res = want
          /\ (~IsUsable(want) /\ ~settings.enable_llm_fallback)
             => res = NoProvider
          /\ (~IsUsable(want) /\ settings.enable_llm_fallback)
             => \/ /\ res = NoProvider
                   /\ \A i \in 1..Len(order) : ~IsUsable(order[i])
                \/ \E i \in 1..Len(order) :
                     /\ res = order[i]
                     /\ IsUsable(res)
                     /\ \A q \in Before(order, i) : ~IsUsable(q)
          /\ want \in Providers
             => order \in { <<"anthropic", "ollama">>, <<"openai", "ollama">>,
                            <<"openai", "anthropic">> }
          /\ want \in Providers => want \notin Range(order)

\* an uninitialized provider was requested and the fallback order gave the
\* healthy one
C15_Witness ==
    /\ GotLlm
    /\ llm_op.provider = "openai"
    /\ settings.enable_llm_fallback
    /\ health_results # {}
    /\ llm_op.res = "ollama"

GenDone == llm_op.op = "generate" /\ llm_op.pc = "done"

UsedPrimary ==
    llm_op.arg = NoProvider \/ llm_op.arg = settings.primary_llm_provider

\* a fallback provider other than the primary is configured and enabled
RetryConfigured ==
    /\ settings.enable_llm_fallback
    /\ settings.fallback_llm_provider \notin
         {NoProvider, settings.primary_llm_provider}

FirstCallRaised == Len(llm_op.calls) >= 1 /\ llm_op.calls[1].raised

\* C16: when the backend call of generate_response raises and the caller
\* used the primary provider (named explicitly or selected by default),
\* generation is retried exactly once, against the configured fallback
\* provider; when the caller used another provider no retry is made; an
\* invocation makes at most two backend calls.
C16_RetryOnce ==
    GenDone =>
      /\ Len(llm_op.calls) <= 2
      /\ (FirstCallRaised /\ UsedPrimary /\ RetryConfigured)
         => /\ Len(llm_op.calls) = 2
            /\ llm_op.calls[2].provider = settings.fallback_llm_provider
            /\ llm_op.calls[2].llm = settings.fallback_llm_provider
      /\ ~UsedPrimary => Len(llm_op.calls) <= 1

\* C17: generate_response never raises to its caller: an exception of the
\* backend call, on the first attempt and on the retry, ends in the return
\* value null; when no provider can be resolved it returns null without
\* calling any backend.
C17_NeverRaises ==
    GenDone =>
      /\ ~llm_op.raised
      /\ llm_op.res \in {"None", "text"}
      /\ (llm_op.calls # <<>> /\ llm_op.calls[Len(llm_op.calls)].raised)
         => llm_op.res = "None"
      /\ GetLlm(llm_op.arg, settings, llm_instances, health_status)
           = NoProvider
         => llm_op.calls = <<>> /\ llm_op.res = "None"
      /\ llm_op.res = "text"
         => /\ llm_op.calls # <<>>
            /\ ~llm_op.calls[Len(llm_op.calls)].raised

\* the first attempt and the retry both raised
C17_Witness ==
    /\ GenDone
    /\ Len(llm_op.calls) = 2
    /\ llm_op.calls[1].raised
    /\ llm_op.calls[2].raised
    /\ llm_op.res = "None"
    /\ ~llm_op.raised

Reported(p) == {x \in health_results : x.provider = p}

CheckReturned == llm_op.op = "check" /\ llm_op.pc = "done"

\* C18: check_all_health never propagates a probe failure: a provider whose
\* probe raises or times out is reported unhealthy, and when it returns the
\* health-map entry of every initialized provider is true exactly when that
\* provider was reported healthy; a later get_llm returns no provider that
\* was reported unhealthy.
C18_ProbeFailureContained ==
    /\ CheckReturned =>
         /\ ~llm_op.raised
         /\ \A p \in llm_instances :
              /\ Cardinality(Reported(p)) = 1
              /\ \A x \in Reported(p) :
                   /\ x.outcome \in {"raises", "timeout"}
                      => x.status = "unhealthy"
                   /\ health_status[p] <=> x.status = "healthy"
         /\ \A x \in health_results : x.provider \in llm_instances
    /\ GotLlm =>
         \A x \in Reported(llm_op.res) : x.status = "healthy"

\* the probe timed out and the provider, healthy before, is marked unhealthy
C18_Witness ==
    /\ CheckReturned
    /\ \E x \in health_results :
         /\ x.provider = "ollama"
         /\ x.outcome = "timeout"
         /\ x.status = "unhealthy"
    /\ ~health_status["ollama"]

-----------------------------------------------------------------------------
(* CrewManager.health_check and CrewManager.reload_configurations          *)

\* what the body of BaseAgent.health_check can do
SelfCheckOutcomes == {"ok", "raises"}

\* BaseAgent.health_check: the status it reports; an exception of its body
\* is caught and reported as unhealthy
SelfCheck(outcome) == IF outcome = "ok" THEN "healthy" ELSE "unhealthy"

\* healthy_agents: the agents whose report has status healthy
HealthyAgents(reports) ==
    Cardinality({a \in DOMAIN reports : reports[a] = "healthy"})

OverallAnyHealthy(healthy_agents, total_agents) ==
    IF healthy_agents > 0 THEN "healthy" ELSE "unhealthy"

\* health_status["crew_manager"]
Overall(healthy_agents, total_agents) ==
    IF healthy_agents = total_agents THEN "healthy"
    ELSE IF healthy_agents > 0 THEN "degraded"
    ELSE "unhealthy"

\* what _initialize_agents can do: both constructors succeed, or the first
\* or the second one raises
InitOutcomes == {"ok", "listener_fails", "duck_fails"}

\* self.agents when _initialize_agents returns or raises, starting from the
\* cleared registry; n is the run that creates the agent objects
InitializeAgents(outcome, n) ==
    CASE outcome = "ok" ->
           [ok |-> TRUE,
            gen |-> [a \in {"listener_agent", "duck_style_agent"} |-> n]]
      [] outcome = "duck_fails" ->
           [ok |-> FALSE, gen |-> [a \in {"listener_agent"} |-> n]]
      [] OTHER ->
           [ok |-> FALSE, gen |-> [a \in {} |-> n]]

KeepPartial(old_agents, init) == init.gen

\* the registry after the inner try of reload_configurations:
\* self.agents = old_agents when _initialize_agents raised
Reinitialized(old_agents, init) ==
    IF init.ok THEN init.gen ELSE old_agents

InitAdmin ==
    /\ cfg = GoodConfig
    /\ agents = AgentNames
    /\ req \in {q \in Requests : q.workflow = "unknown_flow" /\ q.message_ok
                                  /\ q.message = <<>> /\ q.session_id = ""}
    /\ IdleWorkflow
    /\ llm_calls = 0
    /\ call = NoCall
    /\ IdleServices

admUnchanged ==
    UNCHANGED <<cfg, req, pc, emotion_tr, par_tasks, par_done, task_results,
                final_output, wf_result, llm_calls, call, dispatched,
                settings, llm_instances, health_status, health_results,
                llm_op, chat>>

\* health_check up to its first suspension: total_agents and the loop over
\* self.agents.items() (the agents' self-checks do not suspend)
HealthAgents ==
    /\ adm.health = NoOp
    /\ \E outcomes \in [agents -> SelfCheckOutcomes] :
         \E reports \in {[a \in agents |-> SelfCheck(outcomes[a])]} :
           adm' = [ adm EXCEPT !.health =
                      [ op |-> "health", pc |-> "llm",
                        total_agents |-> Cardinality(agents),
                        seen |-> adm.gen,
                        reports |-> reports,
                        healthy_agents |-> HealthyAgents(reports) ] ]
    /\ UNCHANGED agents
    /\ admUnchanged

\* after await llm_service.health_check_all(): the overall health
HealthOverall ==
    /\ adm.health.op = "health" /\ adm.health.pc = "llm"
    /\ adm' = [ adm EXCEPT !.health =
                  [ op |-> "health", pc |-> "done",
                    total_agents |-> adm.health.total_agents,
                    seen |-> adm.health.seen,
                    reports |-> adm.health.reports,
                    healthy_agents |-> adm.health.healthy_agents,
                    crew_manager |-> Overall(adm.health.healthy_agents,
                                             adm.health.total_agents) ] ]
    /\ UNCHANGED agents
    /\ admUnchanged

HealthReturn ==
    /\ adm.health.op = "health" /\ adm.health.pc = "done"
    /\ adm' = [adm EXCEPT !.health = NoOp]
    /\ UNCHANGED agents
    /\ admUnchanged

\* reload_configurations when config_loader.reload_all_configs() raises:
\* the registry is not touched and the error is re-raised
ReloadConfigFails ==
    /\ adm.reloads < MaxReloads
    /\ adm' = [ adm EXCEPT
                  !.reloads = @ + 1,
                  !.reload = [ op |-> "reload", outcome |-> "config_fails",
                               old |-> adm.gen, raised |-> TRUE ] ]
    /\ UNCHANGED agents
    /\ admUnchanged

\* reload_configurations from old_agents = self.agents.copy() to its end;
\* it has no suspension point, so no other request runs in between
ReloadAgents ==
    /\ adm.reloads < MaxReloads
    /\ \E outcome \in InitOutcomes :
         \E init \in {InitializeAgents(outcome, adm.reloads + 1)} :
           \E new \in {Reinitialized(adm.gen, init)} :
             /\ adm' = [ adm EXCEPT
                           !.reloads = @ + 1,
                           !.gen = new,
                           !.reload = [ op |-> "reload", outcome |-> outcome,
                                        old |-> adm.gen,
                                        raised |-> ~init.ok ] ]
             /\ agents' = DOMAIN new
    /\ admUnchanged

NextAdmin ==
    \/ HealthAgents
    \/ HealthOverall
    \/ HealthReturn
    \/ ReloadConfigFails
    \/ ReloadAgents

SpecAdmin == InitAdmin /\ [][NextAdmin]_vars

-----------------------------------------------------------------------------
(* Properties of health_check and reload (checked under SpecAdmin)         *)

HealthDone == adm.health.op = "health" /\ adm.health.pc = "done"

ReportHealthy(a) == adm.health.reports[a] = "healthy"

\* C19: the overall health reported by health_check is healthy iff all
\* registered agents report healthy, degraded if some but not all do, and
\* unhealthy if none do; an agent whose self-check raises counts as not
\* healthy.
C19_OverallHealth ==
    HealthDone =>
      LET checked == DOMAIN adm.health.reports
      IN  /\ checked = AgentNames
          /\ adm.health.total_agents = Cardinality(checked)
          /\ adm.health.crew_manager = "healthy"
               <=> \A a \in checked : ReportHealthy(a)
          /\ adm.health.crew_manager = "degraded"
               <=> /\ \E a \in checked : ReportHealthy(a)
                   /\ \E a \in checked : ~ReportHealthy(a)
          /\ adm.health.crew_manager = "unhealthy"
               <=> \A a \in checked : ~ReportHealthy(a)
          /\ adm.health.crew_manager \in {"healthy", "degraded", "unhealthy"}

\* one agent reports healthy, the other does not
C19_Witness ==
    /\ HealthDone
    /\ ReportHealthy("listener_agent")
    /\ ~ReportHealthy("duck_style_agent")
    /\ adm.health.crew_manager = "degraded"

\* every registered agent object comes from the same run of
\* _initialize_agents
Complete(gen) ==
    /\ DOMAIN gen = AgentNames
    /\ \A a, b \in DOMAIN gen : gen[a] = gen[b]

\* C20: reload_configurations swaps the registry atomically: whenever
\* another request can observe it, the registry holds the complete previous
\* agent set or the complete newly initialized one, never an empty or
\* partial one; if re-initialization fails the registry equals the previous
\* set and the error is re-raised.
C20_AtomicReload ==
    /\ agents = AgentNames
    /\ DOMAIN adm.gen = agents
    /\ Complete(adm.gen)
    /\ adm.health.op = "health" => Complete(adm.health.seen)
    /\ adm.reload.op = "reload" =>
         /\ Complete(adm.reload.old)
         /\ adm.reload.outcome = "ok"
            => /\ ~adm.reload.raised
               /\ \A a \in AgentNames : adm.gen[a] = adm.reloads
               /\ \A a \in AgentNames : adm.gen[a] # adm.reload.old[a]
         /\ adm.reload.outcome # "ok"
            => /\ adm.reload.raised
               /\ adm.gen = adm.reload.old

\* the second constructor raised after the first agent was re-created, and
\* the previous set is back
C20_Witness ==
    /\ adm.reload.op = "reload"
    /\ adm.reload.outcome = "duck_fails"
    /\ adm.reload.raised
    /\ adm.reloads = 2
    /\ \A a \in AgentNames : adm.gen[a] = 1
    /\ agents = AgentNames

-----------------------------------------------------------------------------
(* Failure and fallback of the agents (checked under SpecAgent)            *)

Out == call.res.out
Returns == call.stage = "done" /\ ~call.res.escaped

\* the safety check of the styling agent found nothing
SafetyPassed ==
    LET Passed(safety) == safety.ok /\ ~safety.v.has_issues
    IN  Passed(CheckContentSafety(call.inp.user_message, cfg))

\* C21: missing configuration is fatal for the requesting call and is not
\* silently defaulted: when the task template an agent needs is absent from
\* the configuration, that agent's result, and the TaskResult of its step,
\* has success = false.
C21_MissingTemplateFails ==
    /\ (Called("listener_agent") /\ ProcessInvoked /\ ~cfg.emotion_template)
       => /\ ~Out.success
          /\ ~FromSafeProcess("emotion_analysis", "listener_agent",
                              call.res).tr.success
    /\ (Called("duck_style_agent") /\ ProcessInvoked /\ ~cfg.duck_template
          /\ SafetyPassed)
       => /\ ~Out.success
          /\ ~FromSafeProcess("duck_response_generation", "duck_style_agent",
                              call.res).tr.success

\* the try block of ListenerAgent.process raised
ListenerPathRaised ==
    \/ ~cfg.emotion_template
    \/ call.r.kind = "raise"
    \/ ~ParseAndEnhance(call.r, call.inp.text, cfg).ok

\* the try block of DuckStyleAgent.process raised
DuckPathRaised ==
    LET Path(safety) ==
          \/ ~safety.ok
          \/ /\ ~safety.v.has_issues
             /\ \/ ~cfg.duck_template
                \/ call.r.kind = "raise"
                \/ ~EnhanceDuckResponse(call.inp, cfg).ok
    IN  Path(CheckContentSafety(call.inp.user_message, cfg))

\* msg is prefix, the first failure, ", " and the second failure fb_err
Combines(msg, prefix, fb_err) ==
    \E k \in 3..Len(msg) :
      /\ msg[1] = prefix
      /\ msg[k] = ", "
      /\ SubSeq(msg, k + 1, Len(msg)) = fb_err
      /\ fb_err # <<>>

\* C22: an agent's process returns a failed result only on total failure:
\* success = false iff the LLM path raised and the deterministic fallback
\* also raised, and then the error message combines both failures; if the
\* LLM path raises and the fallback does not, the result is success = true
\* carrying the fallback output.
C22_TotalFailureOnly ==
    /\ (Called("listener_agent") /\ ProcessInvoked) =>
         LET Holds(fb) ==
               /\ Returns
               /\ ~Out.success <=> (ListenerPathRaised /\ ~fb.ok)
               /\ ~Out.success
                  => Combines(Out.error,
                       "Both LLM and fallback analysis failed: ", fb.err)
               /\ (ListenerPathRaised /\ fb.ok)
                  => (Out.success /\ Out.data = fb.v)
         IN  Holds(RuleBasedAnalysis(call.inp.text, cfg))
    /\ (Called("duck_style_agent") /\ ProcessInvoked) =>
         LET Holds(fb) ==
               /\ Returns
               /\ ~Out.success <=> (DuckPathRaised /\ ~fb.ok)
               /\ ~Out.success
                  => Combines(Out.error,
                       "Both LLM and fallback generation failed: ", fb.err)
               /\ (DuckPathRaised /\ fb.ok)
                  => /\ Out.success
                     /\ Out.data = [text |-> fb.v, fallback_used |-> TRUE]
         IN  Holds(GenerateFallbackResponse(call.inp, cfg))

\* the model's call raised and the rule-based analysis raised as well
C22_Witness ==
    /\ Called("listener_agent")
    /\ ProcessInvoked
    /\ cfg.emotion_template
    /\ call.r.kind = "raise"
    /\ ~RuleBasedAnalysis(call.inp.text, cfg).ok
    /\ ~Out.success
    /\ Out.error[1] = "Both LLM and fallback analysis failed: "

\* C23: when the input's session id is empty, safe_process returns a result
\* with success = false and error 'Invalid input data', and the agent's
\* process method is not invoked.
C23_EmptySessionRejected ==
    (call.stage = "done" /\ call.inp.typed /\ call.inp.session_id = "")
    => /\ Returns
       /\ ~Out.success
       /\ Out.error = <<"Invalid input data">>
       /\ Out.data = NullData
       /\ ~call.res.invoked
       /\ call.res.calls = 0
       /\ llm_calls = 0

\* the emotion-analysis agent called with an empty session id and a text
C23_Witness ==
    /\ Called("listener_agent")
    /\ call.inp.typed
    /\ call.inp.session_id = ""
    /\ call.inp.text # <<>>
    /\ cfg = GoodConfig
    /\ ~Out.success

\* exactly one of data and error is populated, according to success
OneOf(o) ==
    /\ o.success => (o.data # NullData /\ o.error = None)
    /\ ~o.success => (o.error # None /\ o.data = NullData)

\* C24: every result returned by safe_process, and every TaskResult built
\* from it, has exactly one of data and error populated according to its
\* outcome, and the processing time is set on every return path.
C24_PayloadXorError ==
    call.stage = "done" =>
      /\ Returns => (OneOf(Out) /\ Out.processing_time_ms # None)
      /\ OneOf(FromSafeProcess("task", call.agent, call.res).tr)

\* a failed result of the except branch of safe_process
C24_Witness ==
    /\ Called(OtherAgent)
    /\ ProcessInvoked
    /\ call.r.kind = "raise"
    /\ Returns
    /\ ~Out.success
    /\ Out.error = <<"process_error">>
    /\ Out.processing_time_ms # None

-----------------------------------------------------------------------------
(* Direct calls of ListenerAgent._normalize_sentiment on any raw string    *)

RawChars == {"+", "-", "0", " ", "P", "o", "S", "n", "E", "g", "zhengmian", "x"}

DocumentedForms == PositiveForms \cup NegativeForms \cup NeutralForms

UpperLetter(c) ==
    CASE c = "p" -> "P" [] c = "o" -> "O" [] c = "s" -> "S"
      [] c = "n" -> "N" [] c = "e" -> "E" [] c = "g" -> "G"
      [] OTHER -> c

\* a documented spelling in upper case, and with surrounding whitespace
Shout(f) == [i \in 1..Len(f) |-> UpperLetter(f[i])]
Padded(f) == <<" ">> \o f \o <<" ", " ">>

Variants(f) == {f, Shout(f), Padded(f), Padded(Shout(f))}

RawSentiments ==
    UNION {[1..n -> RawChars] : n \in 0..MaxRawLen}
    \cup UNION {Variants(f) : f \in DocumentedForms}
    \cup {<<"g", "a", "r", "b", "a", "g", "e", "1", "2", "3">>,
          <<"p", "o", "s", "i", "t", "i", "v", "e", "x">>}

InitNorm ==
    /\ cfg = GoodConfig
    /\ agents = AgentNames
    /\ call \in [stage : {"new"}, op : {"normalize_sentiment"},
                 raw : RawSentiments]
    /\ req \in {q \in Requests : q.workflow = "unknown_flow" /\ q.message_ok
                                  /\ q.message = <<>> /\ q.session_id = ""}
    /\ IdleWorkflow
    /\ llm_calls = 0
    /\ IdleServices

\* self._normalize_sentiment(raw), and the same call on its result
NormalizeCall ==
    /\ call.stage = "new"
    /\ \E res \in {NormalizeSentiment(call.raw)} :
         call' = [ stage |-> "done", op |-> call.op, raw |-> call.raw,
                   res |-> res, again |-> NormalizeSentiment(AsChars(res)) ]
    /\ UNCHANGED <<cfg, agents, req, pc, emotion_tr, par_tasks, par_done,
                   task_results, final_output, wf_result, llm_calls>>
    /\ UNCHANGED <<dispatched, svcVars>>

NextNorm == NormalizeCall

SpecNorm == InitNorm /\ [][NextNorm]_vars

\* C25: sentiment normalization is total and idempotent: every input maps to
\* one of positive, negative, neutral and normalizing the result gives the
\* result again; the documented spellings map to their value whatever the
\* case and the surrounding whitespace, and every unrecognised or empty
\* input maps to neutral.
C25_NormalizeTotalIdempotent ==
    call.stage = "done" =>
      /\ call.res \in {"positive", "negative", "neutral"}
      /\ call.again = call.res
      /\ \A f \in PositiveForms : call.raw \in Variants(f)
                                    => call.res = "positive"
      /\ \A f \in NegativeForms : call.raw \in Variants(f)
                                    => call.res = "negative"
      /\ \A f \in NeutralForms : call.raw \in Variants(f)
                                    => call.res = "neutral"
      /\ call.raw = <<>> => call.res = "neutral"
      /\ (\A f \in DocumentedForms : Strip(LowerStr(call.raw)) # f)
         => call.res = "neutral"

\* 'POS' with surrounding whitespace
C25_Witness ==
    /\ call.stage = "done"
    /\ call.raw = <<" ", "P", "O", "S", " ", " ">>
    /\ call.res = "positive"
    /\ call.again = "positive"

-----------------------------------------------------------------------------
(* The sentiment of the merged analysis (checked under SpecAgent)          *)

RulesSayPositive ==
    /\ ListenerSucceeded
    /\ RuleSentiment(call.inp.text) = "positive"

\* C26 as stated: for an input text whose rule-based analysis alone yields
\* sentiment positive, the sentiment of the merged emotion analysis returned
\* by the emotion-analysis agent is still positive, for every response the
\* model may give.
C26_Original ==
    RulesSayPositive => Out.data.sentiment = "positive"

\* C26 amended: for such a text the returned analysis takes the model's
\* sentiment when the response carries one (the normalised sentiment field
\* of a JSON response, or what the free-text extractor finds, neutral when
\* it finds no sentiment word), and is positive, the rule-based value, when
\* the JSON response has no sentiment field or the rule-based analysis is
\* returned instead of the merge.
C26_Amended ==
    RulesSayPositive =>
      IF Out.data.processing_notes # "combined"
      THEN Out.data.sentiment = "positive"
      ELSE /\ call.r.kind \in {"json", "text"}
           /\ call.r.kind = "text" => Out.data.sentiment = call.r.sentiment
           /\ call.r.kind = "json" =>
                /\ call.r.sentiment = Absent
                   => Out.data.sentiment = "positive"
                /\ call.r.sentiment = Str(<<"+">>)
                   => Out.data.sentiment = "positive"
                /\ call.r.sentiment = Str(<<"N", "E", "G">>)
                   => Out.data.sentiment = "negative"
                /\ call.r.sentiment = Str(<<"x">>)
                   => Out.data.sentiment = "neutral"

\* the rules say positive and the model answers 'NEG'
C26_Witness ==
    /\ RulesSayPositive
    /\ call.inp.text = <<"h">>
    /\ call.r.kind = "json"
    /\ call.r.sentiment = Str(<<"N", "E", "G">>)
    /\ Out.data.processing_notes = "combined"
    /\ Out.data.sentiment = "negative"

-----------------------------------------------------------------------------
(* api/chat.py: the handlers.  send_message suspends at the workflow, and  *)
(* generate_stream between the chunks of the workflow's stream, so other   *)
(* requests run in between.  chat.send is the set of the send_message     *)
(* calls suspended at their workflow, each with its session id and its     *)
(* start_time.  Under SpecChat one send_message or one stream is in        *)
(* progress at a time; under SpecSend send_message calls overlap.          *)

\* what the workflow of send_message can return: status FAILED, or a final
\* output with or without a non-empty emotion analysis
WorkflowOutcomes == {"failed", "with_emotion", "without_emotion"}

FinishSendRecreates(ss, sid, start_time, now, outcome) ==
    IF outcome = "failed"
    THEN Answer(500, ss, "Workflow execution failed")
    ELSE Answer(200,
                Put(ss, sid,
                    Stored(IF sid \in DOMAIN ss THEN ss[sid]
                           ELSE NewSession(start_time),
                           start_time, now, FALSE, outcome = "with_emotion")),
                "ChatResponse")

\* send_message after the workflow returned; chat_sessions[sid] raises
\* KeyError when the session was deleted meanwhile, which is answered 500
FinishSend(ss, sid, start_time, now, outcome) ==
    IF outcome = "failed"
    THEN Answer(500, ss, "Workflow execution failed")
    ELSE IF sid \notin DOMAIN ss THEN Answer(500, ss, "KeyError")
    ELSE Answer(200,
                Put(ss, sid, Stored(ss[sid], start_time, now, FALSE,
                                    outcome = "with_emotion")),
                "ChatResponse")

\* _store_stream_session_data at time t
StoreStreamSessionData(ss, sid, t, has_emotion) ==
    IF sid \notin DOMAIN ss THEN ss
    ELSE Put(ss, sid, [Stored(ss[sid], t, t, TRUE, has_emotion)
                         EXCEPT !.last_activity = t])

\* the request bodies of POST /chat/stream: each field is absent, of
\* another type than string, or a string
StreamTexts ==
    {Absent, Str(<<>>), Str(<<" ">>), Str(<<" ", "h">>)}
StreamSids == {Absent, Str(<<>>), Str(<<" ">>), Str(SidA), Str(SidB)}

\* the bodies sent: at most one field is not a usable value
StreamBodies ==
    {b \in [text : StreamTexts, session_id : StreamSids] :
       b.text = Str(<<" ", "h">>) \/ b.session_id = Str(SidA)}

\* ChatMessage: text is a required string of at least one character,
\* session_id a required string
ValidChatMessage(text, sid) ==
    /\ text.tag = "str"
    /\ Len(text.v) >= 1
    /\ sid.tag = "str"

StreamGuardNoStrip(text, sid) ==
    IF text = <<>> THEN Raise(<<"Message text cannot be empty">>)
    ELSE IF sid = <<>> THEN Raise(<<"Session ID is required">>)
    ELSE Ok(TRUE)

\* the checks at the head of stream_message
StreamGuard(text, sid) ==
    IF text = <<>> \/ Strip(text) = <<>>
    THEN Raise(<<"Message text cannot be empty">>)
    ELSE IF sid = <<>> \/ Strip(sid) = <<>>
    THEN Raise(<<"Session ID is required">>)
    ELSE Ok(TRUE)

\* the events of execute_workflow_stream, in the order it emits them
StreamTypes ==
    <<"emotion_start", "emotion_result", "response_start", "response_end",
      "complete">>

\* the k-th StreamChunk of a stream whose emotion step succeeded or not
EngineChunk(k, has_emotion) ==
    [ type |-> StreamTypes[k],
      data |-> [ emotion_analysis |->
                     has_emotion /\ StreamTypes[k] \in
                                      {"emotion_result", "response_end"},
                 stats |-> StreamTypes[k] = "complete" ] ]

\* chunk_data = {"type": chunk.type.value, ..., **(chunk.data or {})}
Sse(chunk) ==
    [ type |-> chunk.type, emotion_analysis |-> chunk.data.emotion_analysis,
      stats |-> chunk.data.stats ]

ForwardUntilResponseEnd(sent, chunk) ==
    IF sent # <<>> /\ sent[Len(sent)].type = "response_end" THEN sent
    ELSE Append(sent, Sse(chunk))

\* yield f"data: {json.dumps(chunk_data)}\n\n"
Forward(sent, chunk) == Append(sent, Sse(chunk))

InitChat ==
    /\ cfg = GoodConfig
    /\ agents = AgentNames
    /\ req \in {q \in Requests : q.workflow = "unknown_flow" /\ q.message_ok
                                  /\ q.message = <<>> /\ q.session_id = ""}
    /\ IdleWorkflow
    /\ llm_calls = 0
    /\ call = NoCall
    /\ IdleServices

chatUnchanged ==
    UNCHANGED <<cfg, agents, req, pc, emotion_tr, par_tasks, par_done,
                task_results, final_output, wf_result, llm_calls, call,
                dispatched, settings, llm_instances, health_status,
                health_results, llm_op, adm>>

\* send_message up to await crew_manager.execute_workflow(...); other
\* send_message calls may be suspended at their workflows
SendMessageBegin ==
    /\ chat.stream = NoOp
    /\ chat.now < MaxClock
    /\ \E sid \in SessionKeys :
         \E t \in {chat.now + 1} :
           chat' = [ chat EXCEPT
                       !.now = t,
                       !.sessions =
                           Put(@, sid,
                               [ (IF sid \in DOMAIN @ THEN @[sid]
                                  ELSE NewSession(t))
                                 EXCEPT !.last_activity = t ]),
                       !.send = @ \cup {[ session_id |-> sid,
                                           start_time |-> t ]} ]
    /\ chatUnchanged

\* a send_message that arrives while no other one is in progress
SendMessageAlone ==
    /\ chat.send = {}
    /\ SendMessageBegin

\* send_message from the workflow's result to its answer
SendMessageEnd ==
    /\ \E sent \in chat.send, outcome \in WorkflowOutcomes :
         \E answer \in {FinishSend(chat.sessions, sent.session_id,
                                   sent.start_time, chat.now, outcome)} :
           chat' = [ chat EXCEPT
                       !.sessions = answer.sessions,
                       !.send = @ \ {sent},
                       !.reply = Reply("send", sent.session_id,
                                       chat.sessions, answer) ]
    /\ chatUnchanged

\* a handler that answers in one step
Handle(op, sid, answer) ==
    chat' = [ chat EXCEPT
                !.sessions = answer.sessions,
                !.reply = Reply(op, sid, chat.sessions, answer) ]

GetInfo ==
    /\ \E sid \in SessionKeys :
         Handle("info", sid, GetSessionInfo(chat.sessions, sid))
    /\ chatUnchanged

GetMessages ==
    /\ \E sid \in SessionKeys :
         Handle("messages", sid, GetSessionMessages(chat.sessions, sid))
    /\ chatUnchanged

GetHistory ==
    /\ \E sid \in SessionKeys :
         Handle("emotion-history", sid,
                GetEmotionHistory(chat.sessions, sid))
    /\ chatUnchanged

Clear ==
    /\ chat.now < MaxClock
    /\ \E sid \in SessionKeys :
         \E t \in {chat.now + 1} :
           \E answer \in {ClearSession(chat.sessions, sid, t)} :
             chat' = [ chat EXCEPT
                         !.now = t,
                         !.sessions = answer.sessions,
                         !.reply = Reply("clear", sid, chat.sessions,
                                         answer) ]
    /\ chatUnchanged

Delete ==
    /\ \E sid \in SessionKeys :
         Handle("delete", sid, DeleteSession(chat.sessions, sid))
    /\ chatUnchanged

\* stream_message: the request is answered 422, or the StreamingResponse
\* over generate_stream() is returned
StreamMessage ==
    /\ chat.stream = NoOp
    /\ chat.send = {}
    /\ \E body \in StreamBodies :
         LET text == body.text
             sid == body.session_id
             accepted ==
               /\ ValidChatMessage(text, sid)
               /\ StreamGuard(text.v, sid.v).ok
         IN  chat' = [ chat EXCEPT
                         !.reply =
                             [ op |-> "stream", session_id |-> sid,
                               text |-> text,
                               status |-> IF accepted THEN 200 ELSE 422,
                               prev |-> chat.sessions,
                               post |-> chat.sessions ],
                         !.stream =
                             IF accepted
                             THEN [ op |-> "stream", pc |-> "ensure",
                                    session_id |-> sid.v, text |-> text.v,
                                    has_emotion |-> FALSE,
                                    emitted |-> <<>>, sent |-> <<>> ]
                             ELSE NoOp ]
    /\ chatUnchanged

\* generate_stream: "Ensure session exists"
StreamEnsure ==
    /\ chat.stream # NoOp
    /\ chat.stream.pc = "ensure"
    /\ \E t \in {IF chat.stream.session_id \in DOMAIN chat.sessions
                 THEN chat.now ELSE chat.now + 1} :
         /\ t <= MaxClock
         /\ chat' = [ chat EXCEPT
                        !.now = t,
                        !.sessions =
                            IF chat.stream.session_id \in DOMAIN @ THEN @
                            ELSE Put(@, chat.stream.session_id,
                                     NewSession(t)),
                        !.stream.pc = "chunks" ]
    /\ chatUnchanged

\* one round of the async for: the workflow emits its next chunk and
\* generate_stream forwards it.  Whether the emotion step has an analysis
\* is settled when the workflow emits emotion_result
StreamChunkStep ==
    /\ chat.stream # NoOp
    /\ chat.stream.pc = "chunks"
    /\ \E has_emotion \in
            IF StreamTypes[Len(chat.stream.emitted) + 1] = "emotion_result"
            THEN BOOLEAN ELSE {chat.stream.has_emotion} :
       \E chunk \in {EngineChunk(Len(chat.stream.emitted) + 1, has_emotion)} :
         \E t \in {IF chunk.type = "response_end" THEN chat.now + 1
                   ELSE chat.now} :
           /\ t <= MaxClock
           /\ chat' = [ chat EXCEPT
                          !.now = t,
                          !.sessions =
                              IF chunk.type = "response_end"
                              THEN StoreStreamSessionData(
                                     @, chat.stream.session_id, t,
                                     chunk.data.emotion_analysis)
                              ELSE @,
                          !.stream.has_emotion = has_emotion,
                          !.stream.emitted = Append(@, chunk),
                          !.stream.sent = Forward(@, chunk),
                          !.stream.pc = IF chunk.type = "complete"
                                        THEN "done" ELSE "chunks" ]
    /\ chatUnchanged

\* the response of a finished stream is closed
StreamClose ==
    /\ chat.stream # NoOp
    /\ chat.stream.pc = "done"
    /\ chat' = [chat EXCEPT !.stream = NoOp]
    /\ chatUnchanged

NextChat ==
    \/ SendMessageAlone
    \/ SendMessageEnd
    \/ GetInfo
    \/ GetMessages
    \/ GetHistory
    \/ Clear
    \/ Delete
    \/ StreamMessage
    \/ StreamEnsure
    \/ StreamChunkStep
    \/ StreamClose

SpecChat == InitChat /\ [][NextChat]_vars

-----------------------------------------------------------------------------
(* Properties of the chat endpoints (checked under SpecChat)               *)

Streaming == chat.stream # NoOp
TypesOf(events) == [i \in 1..Len(events) |-> events[i].type]
IsPrefix(a, b) == Len(a) <= Len(b) /\ a = SubSeq(b, 1, Len(a))

AllBlank(v) == \A i \in 1..Len(v) : v[i] = " "
BlankText(text) == text.tag = "str" /\ AllBlank(text.v)
BlankOrMissing(sid) == sid.tag = "absent" \/ (sid.tag = "str" /\ AllBlank(sid.v))

\* C28: a streaming request whose text is empty or whitespace-only, or
\* whose session id is missing or blank, is rejected with a validation
\* error (422) before any agent or workflow work begins, and the session
\* store is left unchanged (no session is created for it).
C28_StreamValidation ==
    (chat.reply.op = "stream"
       /\ (BlankText(chat.reply.text) \/ BlankOrMissing(chat.reply.session_id)))
    => /\ chat.reply.status = 422
       /\ chat.reply.post = chat.reply.prev
       /\ ~Streaming

\* a whitespace-only text for a session that does not exist
C28_Witness ==
    /\ chat.reply.op = "stream"
    /\ chat.reply.text = Str(<<" ">>)
    /\ chat.reply.session_id = Str(SidA)
    /\ chat.reply.status = 422
    /\ SidA \notin DOMAIN chat.sessions
    /\ SidB \in DOMAIN chat.sessions

SessionOps == {"info", "messages", "emotion-history", "clear", "delete"}
Replied(op) == chat.reply.op = op

\* C29: clearing an existing session empties its messages and its emotion
\* history and keeps the session entity and its creation metadata: after
\* clear the session still exists with the same created_at, message count 0
\* and no emotion-history entries, and every other session is unchanged.
C29_ClearKeepsSession ==
    Replied("clear") =>
      LET Holds(sid, prev, post) ==
            /\ sid \in DOMAIN prev <=> chat.reply.status = 200
            /\ sid \in DOMAIN prev
               => /\ DOMAIN post = DOMAIN prev
                  /\ post[sid].created_at = prev[sid].created_at
                  /\ Len(post[sid].messages) = 0
                  /\ Len(post[sid].emotion_history) = 0
                  /\ GetSessionInfo(post, sid).body.message_count = 0
                  /\ \A k \in DOMAIN prev \ {sid} : post[k] = prev[k]
      IN  Holds(chat.reply.session_id, chat.reply.prev, chat.reply.post)

\* a session with messages and emotion history is cleared while another
\* session exists
C29_Witness ==
    /\ Replied("clear")
    /\ chat.reply.status = 200
    /\ chat.reply.session_id = SidA
    /\ Len(chat.reply.prev[SidA].messages) = 2
    /\ Len(chat.reply.prev[SidA].emotion_history) = 1
    /\ chat.reply.post[SidA].created_at < chat.reply.post[SidA].last_activity
    /\ SidB \in DOMAIN chat.reply.post

\* C30: deleting a session removes the entity: after delete, get-info,
\* get-messages, get-emotion-history, clear and delete for that session id
\* all answer not-found (404) until a new message lazily re-creates it; any
\* of these operations on a session id that does not exist answers 404 and
\* leaves the session store unchanged.
C30_DeleteRemoves ==
    chat.reply.op \in SessionOps =>
         LET Holds(sid, prev, post) ==
               /\ sid \notin DOMAIN prev
                  => (chat.reply.status = 404 /\ post = prev)
               /\ sid \in DOMAIN prev => chat.reply.status = 200
               /\ (Replied("delete") /\ sid \in DOMAIN prev)
                  => /\ DOMAIN post = DOMAIN prev \ {sid}
                     /\ \A k \in DOMAIN post : post[k] = prev[k]
                     /\ \A op \in {GetSessionInfo(post, sid),
                                   GetSessionMessages(post, sid),
                                   GetEmotionHistory(post, sid),
                                   ClearSession(post, sid, chat.now),
                                   DeleteSession(post, sid)} :
                          op.status = 404 /\ op.sessions = post
               /\ ~Replied("delete") => DOMAIN post = DOMAIN prev
         IN  Holds(chat.reply.session_id, chat.reply.prev, chat.reply.post)

\* a session with messages is deleted while another session exists
C30_Witness ==
    /\ Replied("delete")
    /\ chat.reply.status = 200
    /\ chat.reply.session_id = SidA
    /\ Len(chat.reply.prev[SidA].messages) = 2
    /\ SidA \notin DOMAIN chat.reply.post
    /\ SidB \in DOMAIN chat.reply.post

-----------------------------------------------------------------------------
(* api/chat.py: send_message calls that overlap.  Each call is suspended   *)
(* at its workflow while other calls arrive, return, and the session is    *)
(* cleared, deleted or written by a stream (checked under SpecSend)        *)

\* generate_stream at response_end, for a stream that runs beside the
\* send_message calls: await _store_stream_session_data(...)
StreamStores ==
    /\ chat.now < MaxClock
    /\ \E sid \in SessionKeys, has_emotion \in BOOLEAN :
         \E t \in {chat.now + 1} :
           chat' = [ chat EXCEPT
                       !.now = t,
                       !.sessions = StoreStreamSessionData(@, sid, t,
                                                           has_emotion) ]
    /\ chatUnchanged

NextSend ==
    \/ SendMessageBegin
    \/ SendMessageEnd
    \/ Clear
    \/ Delete
    \/ StreamStores

SpecSend == InitChat /\ [][NextSend]_vars

\* the message pairs of a session: the i-th user message and its reply
Pairs(session) == 1..(Len(session.messages) \div 2)
UserAt(session, i) == session.messages[2 * i - 1]
AssistantAt(session, i) == session.messages[2 * i]
\* the pair was stored by send_message (not by a stream)
BySend(session, i) == ~AssistantAt(session, i).execution_time_ms
SendPairs(session) == {i \in Pairs(session) : BySend(session, i)}

\* C31 as claimed: if two send_message calls for one session id arrive in
\* the order A then B (A's start_time is the earlier one), A's pair
\* precedes B's pair in the session's messages, in every interleaving
C31_Original ==
    \A sid \in DOMAIN chat.sessions :
      LET F(s) ==
            \A i, j \in SendPairs(s) :
              UserAt(s, i).timestamp < UserAt(s, j).timestamp => i < j
      IN  F(chat.sessions[sid])

\* C31 (amended): the pairs of the send_message calls for one session id
\* are in the order in which the calls' workflows returned; in particular
\* a call that was answered before another one arrived precedes it
C31_Amended ==
    \A sid \in DOMAIN chat.sessions :
      LET F(s) ==
            \A i, j \in SendPairs(s) :
              /\ i < j =>
                   AssistantAt(s, i).timestamp <= AssistantAt(s, j).timestamp
              /\ AssistantAt(s, i).timestamp < UserAt(s, j).timestamp
                   => i < j
      IN  F(chat.sessions[sid])

\* two overlapping calls: the one that arrived later is stored first; and
\* two calls in a row
C31_Witness ==
    \E sid \in DOMAIN chat.sessions :
      LET F(s) ==
            /\ \E i, j \in SendPairs(s) :
                 /\ i < j
                 /\ UserAt(s, j).timestamp < UserAt(s, i).timestamp
            /\ \E i, j \in SendPairs(s) :
                 AssistantAt(s, i).timestamp < UserAt(s, j).timestamp
      IN  F(chat.sessions[sid])

-----------------------------------------------------------------------------
(* api/chat.py: what send_message answers for the result its workflow      *)
(* returned (checked under Spec, on every result of execute_workflow)      *)

\* the default of final_output.get("response_text", ...)
DefaultReply == "duck cannot reply now, try again later"

\* raise HTTPException(status_code=500, detail=...)
HttpError(detail) == [status_code |-> 500, detail |-> detail]

\* return ChatResponse(response_text=..., emotion_analysis=..., ...)
ChatResponse(text, emotion) ==
    [status_code |-> 200, response_text |-> text,
     emotion_analysis |-> emotion]

\* final_output.get(key) of final_output = workflow_result.final_output or {}
GetOr(output, key, default) ==
    IF output = NullData \/ key \notin DOMAIN output THEN default
    ELSE output[key]

SendResponseAlwaysAnswers(w) ==
    IF IsThrown(w) THEN HttpError(w.thrown)
    ELSE ChatResponse(GetOr(w.final_output, "response_text", DefaultReply),
                      GetOr(w.final_output, "emotion_analysis", NullData))

\* send_message from the return of execute_workflow to its answer, the
\* session being there
SendResponse(w) ==
    IF IsThrown(w) THEN HttpError(w.thrown)
    ELSE IF w.status = "failed"
    THEN HttpError(<<"Workflow execution failed: ">> \o w.error)
    ELSE ChatResponse(GetOr(w.final_output, "response_text", DefaultReply),
                      GetOr(w.final_output, "emotion_analysis", NullData))

\* the workflow produced no response text at all
NoResponseText(w) ==
    \/ IsThrown(w)
    \/ w.status = "failed"
    \/ w.final_output = NullData

AnswersDefault(r) == r.status_code = 200 /\ r.response_text = DefaultReply

\* C32: when the workflow produced no response text at all (it failed or
\* its final_output is null), send_message answers with a response object
\* that carries the default duck-persona fallback message
C32_FallbackAnswer ==
    (Done /\ NoResponseText(wf_result)) =>
        AnswersDefault(SendResponse(wf_result))

\* C36: for every result of basic_chat_flow or enhanced_chat_flow a status
\* other than FAILED implies a non-null final_output; and send_message never
\* answers with its default fallback text, since a null final_output always
\* comes with status FAILED and the HTTP 500
C36_DefaultNeverReached ==
    Done =>
      /\ (IsResult(wf_result) /\ ChatFlow /\ wf_result.status # "failed")
            => wf_result.final_output # NullData
      /\ IsResult(wf_result) /\ wf_result.final_output = NullData
            => /\ wf_result.status = "failed"
               /\ SendResponse(wf_result).status_code = 500
      /\ ~AnswersDefault(SendResponse(wf_result))

\* an enhanced flow that returned PARTIALLY_COMPLETED and is answered 200
\* with the text of the styling step
C36_Witness ==
    /\ ResultReturned
    /\ req.workflow = "enhanced_chat_flow"
    /\ wf_result.status = "partially_completed"
    /\ SendResponse(wf_result).status_code = 200
    /\ SendResponse(wf_result).response_text
         = wf_result.final_output.response_text

EnhancedReturned ==
    /\ ResultReturned
    /\ req.workflow = "enhanced_chat_flow"
    /\ Tasks(wf_result) # <<>>

ResultOf(w, task_name) ==
    {i \in 1..Len(Tasks(w)) : Tasks(w)[i].task_name = task_name}

\* C37: with only listener_agent and duck_style_agent registered, an
\* enhanced_chat_flow whose emotion step succeeded never returns COMPLETED:
\* its content-recommendation step goes to an unregistered agent and fails;
\* and when the therapy-suggestion step is dispatched too, the success rate
\* is at most 0.5 and the status FAILED, even if the styling step succeeded
C37_EnhancedNeverCompleted ==
    (EnhancedReturned /\ Tasks(wf_result)[1].success) =>
      /\ wf_result.status # "completed"
      /\ ResultOf(wf_result, "content_recommendation") # {}
      /\ \A i \in ResultOf(wf_result, "content_recommendation") :
           /\ ~Tasks(wf_result)[i].success
           /\ ParallelAgent(Tasks(wf_result)[i].task_name) \notin agents
      /\ ResultOf(wf_result, "therapy_suggestion") # {} =>
           /\ ~RateAboveHalf(wf_result.success_rate)
           /\ wf_result.status = "failed"

\* the therapy step was dispatched and the styling step succeeded: two of
\* the four steps succeeded and the flow is FAILED
C37_Witness ==
    /\ EnhancedReturned
    /\ Tasks(wf_result)[1].success
    /\ ResultOf(wf_result, "therapy_suggestion") # {}
    /\ Tasks(wf_result)[Len(Tasks(wf_result))].success
    /\ Tasks(wf_result)[Len(Tasks(wf_result))].task_name
         = "duck_response_generation"
    /\ wf_result.status = "failed"

-----------------------------------------------------------------------------
(* agents/duck_style_agent.py: the style transform "brief" and the final   *)
(* cleanup, called on any response text.  "." stands for the full stop     *)
(* U+3002 and "," for the comma U+FF0C; "a" is a configured analytical      *)
(* phrase, "!" a configured ending character (checked under SpecStyle)     *)

StyleChars == {"x", "a", ".", ",", " ", "!"}
StyleTexts == UNION {[1..n -> StyleChars] : n \in 0..MaxStyleLen}

\* response_enhancement of the agent's configuration: the phrases to
\* remove, the ending characters, and max_response_length
Enhancements ==
    [ analytical_phrases_to_remove : {<<>>, <<(<<"a">>)>>},
      required_ending_chars : {{"."}, {".", "!"}},
      max_response_length : {2, 3} ]

\* no phrase to remove, the full stop as the only ending character
PlainEnhancement ==
    [ analytical_phrases_to_remove |-> <<>>,
      required_ending_chars |-> {"."}, max_response_length |-> 2 ]

\* str.split(sep) for a separator of one character
RECURSIVE SplitAt(_, _)
SplitAt(t, sep) ==
    IF \A i \in 1..Len(t) : t[i] # sep THEN <<t>>
    ELSE LET k == CHOOSE i \in 1..Len(t) :
                    t[i] = sep /\ \A j \in 1..(i - 1) : t[j] # sep
         IN  <<SubSeq(t, 1, k - 1)>> \o SplitAt(SubSeq(t, k + 1, Len(t)), sep)

\* sep.join(parts)
RECURSIVE JoinWith(_, _)
JoinWith(parts, sep) ==
    IF parts = <<>> THEN <<>>
    ELSE IF Len(parts) = 1 THEN parts[1]
    ELSE parts[1] \o <<sep>> \o JoinWith(Tail(parts), sep)

\* sentences[:2]
FirstTwo(parts) == SubSeq(parts, 1, Min(2, Len(parts)))

\* _make_response_brief.  The conditional expression binds weaker than +:
\* (sentences[0] + "." + sentences[-1]) if sentences[-1] else ""
MakeResponseBrief(response) ==
    LET Brief(sentences) ==
          IF Len(sentences) > 2
          THEN IF sentences[Len(sentences)] # <<>>
               THEN sentences[1] \o <<".">> \o sentences[Len(sentences)]
               ELSE <<>>
          ELSE response
    IN  Brief(SplitAt(response, "."))

\* re.sub(r'\s+', ' ', response).strip()
RECURSIVE Squeeze(_)
Squeeze(t) ==
    IF Len(t) < 2 THEN t
    ELSE IF t[1] = " " /\ t[2] = " " THEN Squeeze(Tail(t))
    ELSE <<t[1]>> \o Squeeze(Tail(t))

CollapseSpaces(t) == Strip(Squeeze(t))

StylePunct == {",", "."}

\* re.sub(phrase + "[,.]?", "", response)
RECURSIVE RemovePhrase(_, _)
RemovePhrase(t, phrase) ==
    IF t = <<>> THEN <<>>
    ELSE IF Len(phrase) <= Len(t) /\ SubSeq(t, 1, Len(phrase)) = phrase
    THEN LET Skip(rest) ==
               IF rest # <<>> /\ rest[1] \in StylePunct THEN Tail(rest)
               ELSE rest
         IN  RemovePhrase(Skip(SubSeq(t, Len(phrase) + 1, Len(t))), phrase)
    ELSE <<t[1]>> \o RemovePhrase(Tail(t), phrase)

\* for phrase in analytical_phrases: ...
RECURSIVE RemovePhrases(_, _)
RemovePhrases(t, phrases) ==
    IF phrases = <<>> THEN t
    ELSE RemovePhrases(RemovePhrase(t, Head(phrases)), Tail(phrases))

\* re.sub(r'^[,.]+', '', response)
RECURSIVE LStripPunct(_)
LStripPunct(t) ==
    IF t # <<>> /\ t[1] \in StylePunct THEN LStripPunct(Tail(t)) ELSE t

\* re.sub(r'[,.]{2,}', '.', response)
RECURSIVE MergePunct(_)
MergePunct(t) ==
    IF t = <<>> THEN <<>>
    ELSE IF Len(t) >= 2 /\ t[1] \in StylePunct /\ t[2] \in StylePunct
    THEN <<".">> \o MergePunct(LStripPunct(t))
    ELSE <<t[1]>> \o MergePunct(Tail(t))

\* if not response.endswith(tuple(required_endings)): response += "."
EnsureEnding(t, endings) ==
    IF t # <<>> /\ t[Len(t)] \in endings THEN t ELSE t \o <<".">>

\* if len(response) > max_length: the first two sentences and a full stop
LimitLength(t, max_length) ==
    IF Len(t) > max_length
    THEN JoinWith(FirstTwo(SplitAt(t, ".")), ".") \o <<".">>
    ELSE t

\* _validate_and_cleanup
ValidateAndCleanup(response, enh) ==
    LimitLength(
        EnsureEnding(
            LStripPunct(MergePunct(CollapseSpaces(
                RemovePhrases(CollapseSpaces(response),
                              enh.analytical_phrases_to_remove)))),
            enh.required_ending_chars),
        enh.max_response_length)

InitStyle ==
    /\ cfg = GoodConfig
    /\ agents = AgentNames
    /\ call \in {c \in [stage : {"new"}, op : {"brief", "cleanup"},
                         raw : StyleTexts, enh : Enhancements] :
                   c.op = "brief" => c.enh = PlainEnhancement}
    /\ req \in {q \in Requests : q.workflow = "unknown_flow" /\ q.message_ok
                                  /\ q.message = <<>> /\ q.session_id = ""}
    /\ IdleWorkflow
    /\ llm_calls = 0
    /\ IdleServices

styleUnchanged ==
    /\ UNCHANGED <<cfg, agents, req, pc, emotion_tr, par_tasks, par_done,
                   task_results, final_output, wf_result, llm_calls>>
    /\ UNCHANGED <<dispatched, svcVars>>

\* self._make_response_brief(response)
MakeBriefCall ==
    /\ call.stage = "new"
    /\ call.op = "brief"
    /\ \E res \in {MakeResponseBrief(call.raw)} :
         call' = [ stage |-> "done", op |-> call.op, raw |-> call.raw,
                   enh |-> call.enh, res |-> res ]
    /\ styleUnchanged

\* self._validate_and_cleanup(response)
CleanupCall ==
    /\ call.stage = "new"
    /\ call.op = "cleanup"
    /\ \E res \in {ValidateAndCleanup(call.raw, call.enh)} :
         call' = [ stage |-> "done", op |-> call.op, raw |-> call.raw,
                   enh |-> call.enh, res |-> res ]
    /\ styleUnchanged

NextStyle == MakeBriefCall \/ CleanupCall

SpecStyle == InitStyle /\ [][NextStyle]_vars

Styled(op) == call.stage = "done" /\ call.op = op
Sentences(t) == SplitAt(t, ".")

\* C33: with response style "brief", a response of more than two
\* "."-separated sentences is reduced to exactly its first and its last
\* sentence; the first sentence is always kept
C33_BriefKeepsFirstAndLast ==
    (Styled("brief") /\ Len(Sentences(call.raw)) > 2) =>
        LET F(sentences) ==
              call.res = sentences[1] \o <<".">>
                           \o sentences[Len(sentences)]
        IN  F(Sentences(call.raw))

\* C34: for every input response the text returned by _validate_and_cleanup
\* ends with terminal punctuation and is not longer than the configured
\* max_response_length
C34_CleanupEnforcesLength ==
    Styled("cleanup") =>
        /\ call.res # <<>>
        /\ call.res[Len(call.res)] \in call.enh.required_ending_chars
                                        \cup {"."}
        /\ Len(call.res) <= call.enh.max_response_length

-----------------------------------------------------------------------------
(* The health map and the calls of get_llm and generate_response (checked *)
(* under SpecLLM)                                                          *)

ResolvingOrGenerating(op) == op.op \in {"get_llm", "generate"}

RaisedCalls(op) == {i \in 1..Len(op.calls) : op.calls[i].raised}

\* C35: get_llm and generate_response leave the health map unchanged on
\* every path, also when the backend call raises and when the retry with
\* the fallback raises: a provider whose generation just failed is still
\* marked healthy
C35_HealthOnlyByRefresh ==
    [][ (ResolvingOrGenerating(llm_op) \/ ResolvingOrGenerating(llm_op')) =>
          /\ health_status' = health_status
          /\ llm_op'.op = "generate" =>
               \A i \in RaisedCalls(llm_op') :
                 health_status'[llm_op'.calls[i].llm] ]_vars

\* the backend call raised, the retry with the fallback raised too, and the
\* provider that was called is still marked healthy
C35_Witness ==
    /\ llm_op.op = "generate"
    /\ llm_op.pc = "done"
    /\ Len(llm_op.calls) = 2
    /\ RaisedCalls(llm_op) = {1, 2}
    /\ \A i \in RaisedCalls(llm_op) : health_status[llm_op.calls[i].llm]

-----------------------------------------------------------------------------
(* The shape of the stored sessions and a delete during a suspended       *)
(* send_message (checked under SpecSend)                                   *)

\* C38: after any sequence and interleaving of send_message, stream
\* storage, clear and delete, every existing session's message list has
\* even length and alternates user message, assistant message, and its
\* emotion history has at most one entry per message pair
C38_PairsAlternate ==
    \A sid \in DOMAIN chat.sessions :
      LET F(s) ==
            /\ Len(s.messages) % 2 = 0
            /\ \A i \in Pairs(s) :
                 /\ UserAt(s, i).type = "user"
                 /\ AssistantAt(s, i).type = "assistant"
            /\ Len(s.emotion_history) <= Len(s.messages) \div 2
      IN  F(chat.sessions[sid])

\* a session with a pair stored by a stream and a pair stored by a
\* send_message that was suspended meanwhile, one of them with an emotion
\* analysis
C38_Witness ==
    \E sid \in DOMAIN chat.sessions :
      LET F(s) ==
            /\ Len(s.messages) = 4
            /\ SendPairs(s) # {}
            /\ SendPairs(s) # Pairs(s)
            /\ Len(s.emotion_history) = 1
      IN  F(chat.sessions[sid])

\* the send_message call that ends in this step
Ended == chat.send \ chat'.send

\* the session of the call was deleted after the call arrived: it is
\* missing, or was created again later
DeletedSince(ss, sent) ==
    \/ sent.session_id \notin DOMAIN ss
    \/ ss[sent.session_id].created_at > sent.start_time

\* the call ends with HTTP 500 and leaves the store as it is: the session
\* is not created again and no message is stored
EndsInError ==
    /\ chat'.reply.op = "send"
    /\ chat'.reply.status = 500
    /\ chat'.sessions = chat.sessions

\* C39 as claimed: if the session was deleted while the send_message was
\* suspended in its workflow, the call ends with HTTP 500 whatever the
\* workflow returned, the session is not re-created and neither message is
\* stored
C39_Original ==
    [][ \A sent \in Ended :
          DeletedSince(chat.sessions, sent) => EndsInError ]_vars

\* C39 (amended): the same, provided no other request has created the
\* session again when the workflow returns
C39_Amended ==
    [][ \A sent \in Ended :
          sent.session_id \notin DOMAIN chat.sessions => EndsInError ]_vars

\* a send_message whose workflow succeeded was answered 500 because its
\* session was gone
C39_Witness ==
    /\ chat.reply.op = "send"
    /\ chat.reply.status = 500
    /\ chat.reply.body = "KeyError"
    /\ chat.reply.session_id \notin DOMAIN chat.reply.prev
    /\ chat.reply.post = chat.reply.prev

=============================================================================
